---- MODULE Spec2Model ----
(***************************************************************************)
(* GVA Data Architect dashboard: the incident filter and the two CSV      *)
(* exports of the App component, its mount effect and its chat, report and *)
(* safety-resource handlers, and the Gemini gateway module                 *)
(* (services/gemini.ts) with its chat session.                             *)
(*                                                                         *)
(* Text is modelled as sequences of one-character strings, so that         *)
(* toLowerCase, includes, trim, join and CSV parsing are computed, not     *)
(* assumed.  An optional value (undefined | v) is <<>> or <<v>>.           *)
(***************************************************************************)
EXTENDS Integers, Sequences, FiniteSets, TLC

VARIABLES
  incidents,          \* the list the filter runs over (MOCK_DATA in the App)
  stateFilter,        \* useState('')  part_000:131
  cityFilter,         \* useState('')  part_000:132
  filteredIncidents,  \* useMemo value part_000:203
  downloads,          \* files handed to the browser by a.click(), in order,
                      \* each with the records it was made from
  appPhase,           \* "init" before the mount effect, then "mounted" or "crashed"
  chatHistory,        \* useState<ChatMessage[]>([])  part_000:117
  userInput,          \* useState('')                 part_000:118
  isTyping,           \* useState(false)              part_000:119
  currentChat,        \* let currentChat = null       gemini.ts:90
  sessions,           \* sessions[id]: the messages sent to chat session id
  calls,              \* every call of an async gateway function, in call order
  lastOp,             \* the operation that ran last, and whether it threw
  reportData,         \* useState(null)   part_000:120
  isGeneratingReport, \* useState(false)  part_000:121
  intelResponse,      \* useState(null)   part_000:127
  isIntelLoading,     \* useState(false)  part_000:128
  lookups             \* the runs of handleMapsGrounding, in order: what
                      \* geolocation answered and the call each one made

fvars == <<incidents, stateFilter, cityFilter, filteredIncidents, downloads>>
uvars == <<appPhase, chatHistory, userInput, isTyping>>
svars == <<currentChat, sessions, calls, lastOp>>
hvars == <<reportData, isGeneratingReport, intelResponse, isIntelLoading, lookups>>
vars == <<fvars, uvars, svars, hvars>>

(***************************************************************************)
(* Bounds of the model                                                     *)
(***************************************************************************)
MaxIncidents == 3      \* longest incident list drawn in SpecFilter
MaxDownloads == 1      \* exports performed in one run
MaxCalls == 2          \* gateway functions called directly in one run
MaxSends == 3          \* requests the App's handlers make in one run
MaxSessions == 2       \* startProChat calls that create a session, when called directly

(***************************************************************************)
(* Text helpers (JavaScript String semantics)                              *)
(*                                                                         *)
(* A text is the sequence of the UTF-16 code units of a JavaScript string. *)
(* A code unit below U+0080 is written as the character itself, any other  *)
(* as "U+" followed by its four hexadecimal digits: "U+212A", "U+D801".    *)
(* So is the grave accent, "U+0060", which no string of this language can  *)
(* hold.                                                                   *)
(***************************************************************************)
UpperLower ==
  { <<"A","a">>, <<"B","b">>, <<"C","c">>, <<"D","d">>, <<"E","e">>, <<"F","f">>,
     <<"G","g">>, <<"H","h">>, <<"I","i">>, <<"J","j">>, <<"K","k">>, <<"L","l">>,
     <<"M","m">>, <<"N","n">>, <<"O","o">>, <<"P","p">>, <<"Q","q">>, <<"R","r">>,
     <<"S","s">>, <<"T","t">>, <<"U","u">>, <<"V","v">>, <<"W","w">>, <<"X","x">>,
     <<"Y","y">>, <<"Z","z">> }

\* the code points above U+007F of the Basic Multilingual Plane that have a
\* lowercase mapping of one code point, each with that mapping (Unicode
\* 17.0.0, UnicodeData.txt)
LowerCaseBMP ==
  {
    <<"U+00C0","U+00E0">>, <<"U+00C1","U+00E1">>, <<"U+00C2","U+00E2">>,
    <<"U+00C3","U+00E3">>, <<"U+00C4","U+00E4">>, <<"U+00C5","U+00E5">>,
    <<"U+00C6","U+00E6">>, <<"U+00C7","U+00E7">>, <<"U+00C8","U+00E8">>,
    <<"U+00C9","U+00E9">>, <<"U+00CA","U+00EA">>, <<"U+00CB","U+00EB">>,
    <<"U+00CC","U+00EC">>, <<"U+00CD","U+00ED">>, <<"U+00CE","U+00EE">>,
    <<"U+00CF","U+00EF">>, <<"U+00D0","U+00F0">>, <<"U+00D1","U+00F1">>,
    <<"U+00D2","U+00F2">>, <<"U+00D3","U+00F3">>, <<"U+00D4","U+00F4">>,
    <<"U+00D5","U+00F5">>, <<"U+00D6","U+00F6">>, <<"U+00D8","U+00F8">>,
    <<"U+00D9","U+00F9">>, <<"U+00DA","U+00FA">>, <<"U+00DB","U+00FB">>,
    <<"U+00DC","U+00FC">>, <<"U+00DD","U+00FD">>, <<"U+00DE","U+00FE">>,
    <<"U+0100","U+0101">>, <<"U+0102","U+0103">>, <<"U+0104","U+0105">>,
    <<"U+0106","U+0107">>, <<"U+0108","U+0109">>, <<"U+010A","U+010B">>,
    <<"U+010C","U+010D">>, <<"U+010E","U+010F">>, <<"U+0110","U+0111">>,
    <<"U+0112","U+0113">>, <<"U+0114","U+0115">>, <<"U+0116","U+0117">>,
    <<"U+0118","U+0119">>, <<"U+011A","U+011B">>, <<"U+011C","U+011D">>,
    <<"U+011E","U+011F">>, <<"U+0120","U+0121">>, <<"U+0122","U+0123">>,
    <<"U+0124","U+0125">>, <<"U+0126","U+0127">>, <<"U+0128","U+0129">>,
    <<"U+012A","U+012B">>, <<"U+012C","U+012D">>, <<"U+012E","U+012F">>,
    <<"U+0132","U+0133">>, <<"U+0134","U+0135">>, <<"U+0136","U+0137">>,
    <<"U+0139","U+013A">>, <<"U+013B","U+013C">>, <<"U+013D","U+013E">>,
    <<"U+013F","U+0140">>, <<"U+0141","U+0142">>, <<"U+0143","U+0144">>,
    <<"U+0145","U+0146">>, <<"U+0147","U+0148">>, <<"U+014A","U+014B">>,
    <<"U+014C","U+014D">>, <<"U+014E","U+014F">>, <<"U+0150","U+0151">>,
    <<"U+0152","U+0153">>, <<"U+0154","U+0155">>, <<"U+0156","U+0157">>,
    <<"U+0158","U+0159">>, <<"U+015A","U+015B">>, <<"U+015C","U+015D">>,
    <<"U+015E","U+015F">>, <<"U+0160","U+0161">>, <<"U+0162","U+0163">>,
    <<"U+0164","U+0165">>, <<"U+0166","U+0167">>, <<"U+0168","U+0169">>,
    <<"U+016A","U+016B">>, <<"U+016C","U+016D">>, <<"U+016E","U+016F">>,
    <<"U+0170","U+0171">>, <<"U+0172","U+0173">>, <<"U+0174","U+0175">>,
    <<"U+0176","U+0177">>, <<"U+0178","U+00FF">>, <<"U+0179","U+017A">>,
    <<"U+017B","U+017C">>, <<"U+017D","U+017E">>, <<"U+0181","U+0253">>,
    <<"U+0182","U+0183">>, <<"U+0184","U+0185">>, <<"U+0186","U+0254">>,
    <<"U+0187","U+0188">>, <<"U+0189","U+0256">>, <<"U+018A","U+0257">>,
    <<"U+018B","U+018C">>, <<"U+018E","U+01DD">>, <<"U+018F","U+0259">>,
    <<"U+0190","U+025B">>, <<"U+0191","U+0192">>, <<"U+0193","U+0260">>,
    <<"U+0194","U+0263">>, <<"U+0196","U+0269">>, <<"U+0197","U+0268">>,
    <<"U+0198","U+0199">>, <<"U+019C","U+026F">>, <<"U+019D","U+0272">>,
    <<"U+019F","U+0275">>, <<"U+01A0","U+01A1">>, <<"U+01A2","U+01A3">>,
    <<"U+01A4","U+01A5">>, <<"U+01A6","U+0280">>, <<"U+01A7","U+01A8">>,
    <<"U+01A9","U+0283">>, <<"U+01AC","U+01AD">>, <<"U+01AE","U+0288">>,
    <<"U+01AF","U+01B0">>, <<"U+01B1","U+028A">>, <<"U+01B2","U+028B">>,
    <<"U+01B3","U+01B4">>, <<"U+01B5","U+01B6">>, <<"U+01B7","U+0292">>,
    <<"U+01B8","U+01B9">>, <<"U+01BC","U+01BD">>, <<"U+01C4","U+01C6">>,
    <<"U+01C5","U+01C6">>, <<"U+01C7","U+01C9">>, <<"U+01C8","U+01C9">>,
    <<"U+01CA","U+01CC">>, <<"U+01CB","U+01CC">>, <<"U+01CD","U+01CE">>,
    <<"U+01CF","U+01D0">>, <<"U+01D1","U+01D2">>, <<"U+01D3","U+01D4">>,
    <<"U+01D5","U+01D6">>, <<"U+01D7","U+01D8">>, <<"U+01D9","U+01DA">>,
    <<"U+01DB","U+01DC">>, <<"U+01DE","U+01DF">>, <<"U+01E0","U+01E1">>,
    <<"U+01E2","U+01E3">>, <<"U+01E4","U+01E5">>, <<"U+01E6","U+01E7">>,
    <<"U+01E8","U+01E9">>, <<"U+01EA","U+01EB">>, <<"U+01EC","U+01ED">>,
    <<"U+01EE","U+01EF">>, <<"U+01F1","U+01F3">>, <<"U+01F2","U+01F3">>,
    <<"U+01F4","U+01F5">>, <<"U+01F6","U+0195">>, <<"U+01F7","U+01BF">>,
    <<"U+01F8","U+01F9">>, <<"U+01FA","U+01FB">>, <<"U+01FC","U+01FD">>,
    <<"U+01FE","U+01FF">>, <<"U+0200","U+0201">>, <<"U+0202","U+0203">>,
    <<"U+0204","U+0205">>, <<"U+0206","U+0207">>, <<"U+0208","U+0209">>,
    <<"U+020A","U+020B">>, <<"U+020C","U+020D">>, <<"U+020E","U+020F">>,
    <<"U+0210","U+0211">>, <<"U+0212","U+0213">>, <<"U+0214","U+0215">>,
    <<"U+0216","U+0217">>, <<"U+0218","U+0219">>, <<"U+021A","U+021B">>,
    <<"U+021C","U+021D">>, <<"U+021E","U+021F">>, <<"U+0220","U+019E">>,
    <<"U+0222","U+0223">>, <<"U+0224","U+0225">>, <<"U+0226","U+0227">>,
    <<"U+0228","U+0229">>, <<"U+022A","U+022B">>, <<"U+022C","U+022D">>,
    <<"U+022E","U+022F">>, <<"U+0230","U+0231">>, <<"U+0232","U+0233">>,
    <<"U+023A","U+2C65">>, <<"U+023B","U+023C">>, <<"U+023D","U+019A">>,
    <<"U+023E","U+2C66">>, <<"U+0241","U+0242">>, <<"U+0243","U+0180">>,
    <<"U+0244","U+0289">>, <<"U+0245","U+028C">>, <<"U+0246","U+0247">>,
    <<"U+0248","U+0249">>, <<"U+024A","U+024B">>, <<"U+024C","U+024D">>,
    <<"U+024E","U+024F">>, <<"U+0370","U+0371">>, <<"U+0372","U+0373">>,
    <<"U+0376","U+0377">>, <<"U+037F","U+03F3">>, <<"U+0386","U+03AC">>,
    <<"U+0388","U+03AD">>, <<"U+0389","U+03AE">>, <<"U+038A","U+03AF">>,
    <<"U+038C","U+03CC">>, <<"U+038E","U+03CD">>, <<"U+038F","U+03CE">>,
    <<"U+0391","U+03B1">>, <<"U+0392","U+03B2">>, <<"U+0393","U+03B3">>,
    <<"U+0394","U+03B4">>, <<"U+0395","U+03B5">>, <<"U+0396","U+03B6">>,
    <<"U+0397","U+03B7">>, <<"U+0398","U+03B8">>, <<"U+0399","U+03B9">>,
    <<"U+039A","U+03BA">>, <<"U+039B","U+03BB">>, <<"U+039C","U+03BC">>,
    <<"U+039D","U+03BD">>, <<"U+039E","U+03BE">>, <<"U+039F","U+03BF">>,
    <<"U+03A0","U+03C0">>, <<"U+03A1","U+03C1">>, <<"U+03A3","U+03C3">>,
    <<"U+03A4","U+03C4">>, <<"U+03A5","U+03C5">>, <<"U+03A6","U+03C6">>,
    <<"U+03A7","U+03C7">>, <<"U+03A8","U+03C8">>, <<"U+03A9","U+03C9">>,
    <<"U+03AA","U+03CA">>, <<"U+03AB","U+03CB">>, <<"U+03CF","U+03D7">>,
    <<"U+03D8","U+03D9">>, <<"U+03DA","U+03DB">>, <<"U+03DC","U+03DD">>,
    <<"U+03DE","U+03DF">>, <<"U+03E0","U+03E1">>, <<"U+03E2","U+03E3">>,
    <<"U+03E4","U+03E5">>, <<"U+03E6","U+03E7">>, <<"U+03E8","U+03E9">>,
    <<"U+03EA","U+03EB">>, <<"U+03EC","U+03ED">>, <<"U+03EE","U+03EF">>,
    <<"U+03F4","U+03B8">>, <<"U+03F7","U+03F8">>, <<"U+03F9","U+03F2">>,
    <<"U+03FA","U+03FB">>, <<"U+03FD","U+037B">>, <<"U+03FE","U+037C">>,
    <<"U+03FF","U+037D">>, <<"U+0400","U+0450">>, <<"U+0401","U+0451">>,
    <<"U+0402","U+0452">>, <<"U+0403","U+0453">>, <<"U+0404","U+0454">>,
    <<"U+0405","U+0455">>, <<"U+0406","U+0456">>, <<"U+0407","U+0457">>,
    <<"U+0408","U+0458">>, <<"U+0409","U+0459">>, <<"U+040A","U+045A">>,
    <<"U+040B","U+045B">>, <<"U+040C","U+045C">>, <<"U+040D","U+045D">>,
    <<"U+040E","U+045E">>, <<"U+040F","U+045F">>, <<"U+0410","U+0430">>,
    <<"U+0411","U+0431">>, <<"U+0412","U+0432">>, <<"U+0413","U+0433">>,
    <<"U+0414","U+0434">>, <<"U+0415","U+0435">>, <<"U+0416","U+0436">>,
    <<"U+0417","U+0437">>, <<"U+0418","U+0438">>, <<"U+0419","U+0439">>,
    <<"U+041A","U+043A">>, <<"U+041B","U+043B">>, <<"U+041C","U+043C">>,
    <<"U+041D","U+043D">>, <<"U+041E","U+043E">>, <<"U+041F","U+043F">>,
    <<"U+0420","U+0440">>, <<"U+0421","U+0441">>, <<"U+0422","U+0442">>,
    <<"U+0423","U+0443">>, <<"U+0424","U+0444">>, <<"U+0425","U+0445">>,
    <<"U+0426","U+0446">>, <<"U+0427","U+0447">>, <<"U+0428","U+0448">>,
    <<"U+0429","U+0449">>, <<"U+042A","U+044A">>, <<"U+042B","U+044B">>,
    <<"U+042C","U+044C">>, <<"U+042D","U+044D">>, <<"U+042E","U+044E">>,
    <<"U+042F","U+044F">>, <<"U+0460","U+0461">>, <<"U+0462","U+0463">>,
    <<"U+0464","U+0465">>, <<"U+0466","U+0467">>, <<"U+0468","U+0469">>,
    <<"U+046A","U+046B">>, <<"U+046C","U+046D">>, <<"U+046E","U+046F">>,
    <<"U+0470","U+0471">>, <<"U+0472","U+0473">>, <<"U+0474","U+0475">>,
    <<"U+0476","U+0477">>, <<"U+0478","U+0479">>, <<"U+047A","U+047B">>,
    <<"U+047C","U+047D">>, <<"U+047E","U+047F">>, <<"U+0480","U+0481">>,
    <<"U+048A","U+048B">>, <<"U+048C","U+048D">>, <<"U+048E","U+048F">>,
    <<"U+0490","U+0491">>, <<"U+0492","U+0493">>, <<"U+0494","U+0495">>,
    <<"U+0496","U+0497">>, <<"U+0498","U+0499">>, <<"U+049A","U+049B">>,
    <<"U+049C","U+049D">>, <<"U+049E","U+049F">>, <<"U+04A0","U+04A1">>,
    <<"U+04A2","U+04A3">>, <<"U+04A4","U+04A5">>, <<"U+04A6","U+04A7">>,
    <<"U+04A8","U+04A9">>, <<"U+04AA","U+04AB">>, <<"U+04AC","U+04AD">>,
    <<"U+04AE","U+04AF">>, <<"U+04B0","U+04B1">>, <<"U+04B2","U+04B3">>,
    <<"U+04B4","U+04B5">>, <<"U+04B6","U+04B7">>, <<"U+04B8","U+04B9">>,
    <<"U+04BA","U+04BB">>, <<"U+04BC","U+04BD">>, <<"U+04BE","U+04BF">>,
    <<"U+04C0","U+04CF">>, <<"U+04C1","U+04C2">>, <<"U+04C3","U+04C4">>,
    <<"U+04C5","U+04C6">>, <<"U+04C7","U+04C8">>, <<"U+04C9","U+04CA">>,
    <<"U+04CB","U+04CC">>, <<"U+04CD","U+04CE">>, <<"U+04D0","U+04D1">>,
    <<"U+04D2","U+04D3">>, <<"U+04D4","U+04D5">>, <<"U+04D6","U+04D7">>,
    <<"U+04D8","U+04D9">>, <<"U+04DA","U+04DB">>, <<"U+04DC","U+04DD">>,
    <<"U+04DE","U+04DF">>, <<"U+04E0","U+04E1">>, <<"U+04E2","U+04E3">>,
    <<"U+04E4","U+04E5">>, <<"U+04E6","U+04E7">>, <<"U+04E8","U+04E9">>,
    <<"U+04EA","U+04EB">>, <<"U+04EC","U+04ED">>, <<"U+04EE","U+04EF">>,
    <<"U+04F0","U+04F1">>, <<"U+04F2","U+04F3">>, <<"U+04F4","U+04F5">>,
    <<"U+04F6","U+04F7">>, <<"U+04F8","U+04F9">>, <<"U+04FA","U+04FB">>,
    <<"U+04FC","U+04FD">>, <<"U+04FE","U+04FF">>, <<"U+0500","U+0501">>,
    <<"U+0502","U+0503">>, <<"U+0504","U+0505">>, <<"U+0506","U+0507">>,
    <<"U+0508","U+0509">>, <<"U+050A","U+050B">>, <<"U+050C","U+050D">>,
    <<"U+050E","U+050F">>, <<"U+0510","U+0511">>, <<"U+0512","U+0513">>,
    <<"U+0514","U+0515">>, <<"U+0516","U+0517">>, <<"U+0518","U+0519">>,
    <<"U+051A","U+051B">>, <<"U+051C","U+051D">>, <<"U+051E","U+051F">>,
    <<"U+0520","U+0521">>, <<"U+0522","U+0523">>, <<"U+0524","U+0525">>,
    <<"U+0526","U+0527">>, <<"U+0528","U+0529">>, <<"U+052A","U+052B">>,
    <<"U+052C","U+052D">>, <<"U+052E","U+052F">>, <<"U+0531","U+0561">>,
    <<"U+0532","U+0562">>, <<"U+0533","U+0563">>, <<"U+0534","U+0564">>,
    <<"U+0535","U+0565">>, <<"U+0536","U+0566">>, <<"U+0537","U+0567">>,
    <<"U+0538","U+0568">>, <<"U+0539","U+0569">>, <<"U+053A","U+056A">>,
    <<"U+053B","U+056B">>, <<"U+053C","U+056C">>, <<"U+053D","U+056D">>,
    <<"U+053E","U+056E">>, <<"U+053F","U+056F">>, <<"U+0540","U+0570">>,
    <<"U+0541","U+0571">>, <<"U+0542","U+0572">>, <<"U+0543","U+0573">>,
    <<"U+0544","U+0574">>, <<"U+0545","U+0575">>, <<"U+0546","U+0576">>,
    <<"U+0547","U+0577">>, <<"U+0548","U+0578">>, <<"U+0549","U+0579">>,
    <<"U+054A","U+057A">>, <<"U+054B","U+057B">>, <<"U+054C","U+057C">>,
    <<"U+054D","U+057D">>, <<"U+054E","U+057E">>, <<"U+054F","U+057F">>,
    <<"U+0550","U+0580">>, <<"U+0551","U+0581">>, <<"U+0552","U+0582">>,
    <<"U+0553","U+0583">>, <<"U+0554","U+0584">>, <<"U+0555","U+0585">>,
    <<"U+0556","U+0586">>, <<"U+10A0","U+2D00">>, <<"U+10A1","U+2D01">>,
    <<"U+10A2","U+2D02">>, <<"U+10A3","U+2D03">>, <<"U+10A4","U+2D04">>,
    <<"U+10A5","U+2D05">>, <<"U+10A6","U+2D06">>, <<"U+10A7","U+2D07">>,
    <<"U+10A8","U+2D08">>, <<"U+10A9","U+2D09">>, <<"U+10AA","U+2D0A">>,
    <<"U+10AB","U+2D0B">>, <<"U+10AC","U+2D0C">>, <<"U+10AD","U+2D0D">>,
    <<"U+10AE","U+2D0E">>, <<"U+10AF","U+2D0F">>, <<"U+10B0","U+2D10">>,
    <<"U+10B1","U+2D11">>, <<"U+10B2","U+2D12">>, <<"U+10B3","U+2D13">>,
    <<"U+10B4","U+2D14">>, <<"U+10B5","U+2D15">>, <<"U+10B6","U+2D16">>,
    <<"U+10B7","U+2D17">>, <<"U+10B8","U+2D18">>, <<"U+10B9","U+2D19">>,
    <<"U+10BA","U+2D1A">>, <<"U+10BB","U+2D1B">>, <<"U+10BC","U+2D1C">>,
    <<"U+10BD","U+2D1D">>, <<"U+10BE","U+2D1E">>, <<"U+10BF","U+2D1F">>,
    <<"U+10C0","U+2D20">>, <<"U+10C1","U+2D21">>, <<"U+10C2","U+2D22">>,
    <<"U+10C3","U+2D23">>, <<"U+10C4","U+2D24">>, <<"U+10C5","U+2D25">>,
    <<"U+10C7","U+2D27">>, <<"U+10CD","U+2D2D">>, <<"U+13A0","U+AB70">>,
    <<"U+13A1","U+AB71">>, <<"U+13A2","U+AB72">>, <<"U+13A3","U+AB73">>,
    <<"U+13A4","U+AB74">>, <<"U+13A5","U+AB75">>, <<"U+13A6","U+AB76">>,
    <<"U+13A7","U+AB77">>, <<"U+13A8","U+AB78">>, <<"U+13A9","U+AB79">>,
    <<"U+13AA","U+AB7A">>, <<"U+13AB","U+AB7B">>, <<"U+13AC","U+AB7C">>,
    <<"U+13AD","U+AB7D">>, <<"U+13AE","U+AB7E">>, <<"U+13AF","U+AB7F">>,
    <<"U+13B0","U+AB80">>, <<"U+13B1","U+AB81">>, <<"U+13B2","U+AB82">>,
    <<"U+13B3","U+AB83">>, <<"U+13B4","U+AB84">>, <<"U+13B5","U+AB85">>,
    <<"U+13B6","U+AB86">>, <<"U+13B7","U+AB87">>, <<"U+13B8","U+AB88">>,
    <<"U+13B9","U+AB89">>, <<"U+13BA","U+AB8A">>, <<"U+13BB","U+AB8B">>,
    <<"U+13BC","U+AB8C">>, <<"U+13BD","U+AB8D">>, <<"U+13BE","U+AB8E">>,
    <<"U+13BF","U+AB8F">>, <<"U+13C0","U+AB90">>, <<"U+13C1","U+AB91">>,
    <<"U+13C2","U+AB92">>, <<"U+13C3","U+AB93">>, <<"U+13C4","U+AB94">>,
    <<"U+13C5","U+AB95">>, <<"U+13C6","U+AB96">>, <<"U+13C7","U+AB97">>,
    <<"U+13C8","U+AB98">>, <<"U+13C9","U+AB99">>, <<"U+13CA","U+AB9A">>,
    <<"U+13CB","U+AB9B">>, <<"U+13CC","U+AB9C">>, <<"U+13CD","U+AB9D">>,
    <<"U+13CE","U+AB9E">>, <<"U+13CF","U+AB9F">>, <<"U+13D0","U+ABA0">>,
    <<"U+13D1","U+ABA1">>, <<"U+13D2","U+ABA2">>, <<"U+13D3","U+ABA3">>,
    <<"U+13D4","U+ABA4">>, <<"U+13D5","U+ABA5">>, <<"U+13D6","U+ABA6">>,
    <<"U+13D7","U+ABA7">>, <<"U+13D8","U+ABA8">>, <<"U+13D9","U+ABA9">>,
    <<"U+13DA","U+ABAA">>, <<"U+13DB","U+ABAB">>, <<"U+13DC","U+ABAC">>,
    <<"U+13DD","U+ABAD">>, <<"U+13DE","U+ABAE">>, <<"U+13DF","U+ABAF">>,
    <<"U+13E0","U+ABB0">>, <<"U+13E1","U+ABB1">>, <<"U+13E2","U+ABB2">>,
    <<"U+13E3","U+ABB3">>, <<"U+13E4","U+ABB4">>, <<"U+13E5","U+ABB5">>,
    <<"U+13E6","U+ABB6">>, <<"U+13E7","U+ABB7">>, <<"U+13E8","U+ABB8">>,
    <<"U+13E9","U+ABB9">>, <<"U+13EA","U+ABBA">>, <<"U+13EB","U+ABBB">>,
    <<"U+13EC","U+ABBC">>, <<"U+13ED","U+ABBD">>, <<"U+13EE","U+ABBE">>,
    <<"U+13EF","U+ABBF">>, <<"U+13F0","U+13F8">>, <<"U+13F1","U+13F9">>,
    <<"U+13F2","U+13FA">>, <<"U+13F3","U+13FB">>, <<"U+13F4","U+13FC">>,
    <<"U+13F5","U+13FD">>, <<"U+1C89","U+1C8A">>, <<"U+1C90","U+10D0">>,
    <<"U+1C91","U+10D1">>, <<"U+1C92","U+10D2">>, <<"U+1C93","U+10D3">>,
    <<"U+1C94","U+10D4">>, <<"U+1C95","U+10D5">>, <<"U+1C96","U+10D6">>,
    <<"U+1C97","U+10D7">>, <<"U+1C98","U+10D8">>, <<"U+1C99","U+10D9">>,
    <<"U+1C9A","U+10DA">>, <<"U+1C9B","U+10DB">>, <<"U+1C9C","U+10DC">>,
    <<"U+1C9D","U+10DD">>, <<"U+1C9E","U+10DE">>, <<"U+1C9F","U+10DF">>,
    <<"U+1CA0","U+10E0">>, <<"U+1CA1","U+10E1">>, <<"U+1CA2","U+10E2">>,
    <<"U+1CA3","U+10E3">>, <<"U+1CA4","U+10E4">>, <<"U+1CA5","U+10E5">>,
    <<"U+1CA6","U+10E6">>, <<"U+1CA7","U+10E7">>, <<"U+1CA8","U+10E8">>,
    <<"U+1CA9","U+10E9">>, <<"U+1CAA","U+10EA">>, <<"U+1CAB","U+10EB">>,
    <<"U+1CAC","U+10EC">>, <<"U+1CAD","U+10ED">>, <<"U+1CAE","U+10EE">>,
    <<"U+1CAF","U+10EF">>, <<"U+1CB0","U+10F0">>, <<"U+1CB1","U+10F1">>,
    <<"U+1CB2","U+10F2">>, <<"U+1CB3","U+10F3">>, <<"U+1CB4","U+10F4">>,
    <<"U+1CB5","U+10F5">>, <<"U+1CB6","U+10F6">>, <<"U+1CB7","U+10F7">>,
    <<"U+1CB8","U+10F8">>, <<"U+1CB9","U+10F9">>, <<"U+1CBA","U+10FA">>,
    <<"U+1CBD","U+10FD">>, <<"U+1CBE","U+10FE">>, <<"U+1CBF","U+10FF">>,
    <<"U+1E00","U+1E01">>, <<"U+1E02","U+1E03">>, <<"U+1E04","U+1E05">>,
    <<"U+1E06","U+1E07">>, <<"U+1E08","U+1E09">>, <<"U+1E0A","U+1E0B">>,
    <<"U+1E0C","U+1E0D">>, <<"U+1E0E","U+1E0F">>, <<"U+1E10","U+1E11">>,
    <<"U+1E12","U+1E13">>, <<"U+1E14","U+1E15">>, <<"U+1E16","U+1E17">>,
    <<"U+1E18","U+1E19">>, <<"U+1E1A","U+1E1B">>, <<"U+1E1C","U+1E1D">>,
    <<"U+1E1E","U+1E1F">>, <<"U+1E20","U+1E21">>, <<"U+1E22","U+1E23">>,
    <<"U+1E24","U+1E25">>, <<"U+1E26","U+1E27">>, <<"U+1E28","U+1E29">>,
    <<"U+1E2A","U+1E2B">>, <<"U+1E2C","U+1E2D">>, <<"U+1E2E","U+1E2F">>,
    <<"U+1E30","U+1E31">>, <<"U+1E32","U+1E33">>, <<"U+1E34","U+1E35">>,
    <<"U+1E36","U+1E37">>, <<"U+1E38","U+1E39">>, <<"U+1E3A","U+1E3B">>,
    <<"U+1E3C","U+1E3D">>, <<"U+1E3E","U+1E3F">>, <<"U+1E40","U+1E41">>,
    <<"U+1E42","U+1E43">>, <<"U+1E44","U+1E45">>, <<"U+1E46","U+1E47">>,
    <<"U+1E48","U+1E49">>, <<"U+1E4A","U+1E4B">>, <<"U+1E4C","U+1E4D">>,
    <<"U+1E4E","U+1E4F">>, <<"U+1E50","U+1E51">>, <<"U+1E52","U+1E53">>,
    <<"U+1E54","U+1E55">>, <<"U+1E56","U+1E57">>, <<"U+1E58","U+1E59">>,
    <<"U+1E5A","U+1E5B">>, <<"U+1E5C","U+1E5D">>, <<"U+1E5E","U+1E5F">>,
    <<"U+1E60","U+1E61">>, <<"U+1E62","U+1E63">>, <<"U+1E64","U+1E65">>,
    <<"U+1E66","U+1E67">>, <<"U+1E68","U+1E69">>, <<"U+1E6A","U+1E6B">>,
    <<"U+1E6C","U+1E6D">>, <<"U+1E6E","U+1E6F">>, <<"U+1E70","U+1E71">>,
    <<"U+1E72","U+1E73">>, <<"U+1E74","U+1E75">>, <<"U+1E76","U+1E77">>,
    <<"U+1E78","U+1E79">>, <<"U+1E7A","U+1E7B">>, <<"U+1E7C","U+1E7D">>,
    <<"U+1E7E","U+1E7F">>, <<"U+1E80","U+1E81">>, <<"U+1E82","U+1E83">>,
    <<"U+1E84","U+1E85">>, <<"U+1E86","U+1E87">>, <<"U+1E88","U+1E89">>,
    <<"U+1E8A","U+1E8B">>, <<"U+1E8C","U+1E8D">>, <<"U+1E8E","U+1E8F">>,
    <<"U+1E90","U+1E91">>, <<"U+1E92","U+1E93">>, <<"U+1E94","U+1E95">>,
    <<"U+1E9E","U+00DF">>, <<"U+1EA0","U+1EA1">>, <<"U+1EA2","U+1EA3">>,
    <<"U+1EA4","U+1EA5">>, <<"U+1EA6","U+1EA7">>, <<"U+1EA8","U+1EA9">>,
    <<"U+1EAA","U+1EAB">>, <<"U+1EAC","U+1EAD">>, <<"U+1EAE","U+1EAF">>,
    <<"U+1EB0","U+1EB1">>, <<"U+1EB2","U+1EB3">>, <<"U+1EB4","U+1EB5">>,
    <<"U+1EB6","U+1EB7">>, <<"U+1EB8","U+1EB9">>, <<"U+1EBA","U+1EBB">>,
    <<"U+1EBC","U+1EBD">>, <<"U+1EBE","U+1EBF">>, <<"U+1EC0","U+1EC1">>,
    <<"U+1EC2","U+1EC3">>, <<"U+1EC4","U+1EC5">>, <<"U+1EC6","U+1EC7">>,
    <<"U+1EC8","U+1EC9">>, <<"U+1ECA","U+1ECB">>, <<"U+1ECC","U+1ECD">>,
    <<"U+1ECE","U+1ECF">>, <<"U+1ED0","U+1ED1">>, <<"U+1ED2","U+1ED3">>,
    <<"U+1ED4","U+1ED5">>, <<"U+1ED6","U+1ED7">>, <<"U+1ED8","U+1ED9">>,
    <<"U+1EDA","U+1EDB">>, <<"U+1EDC","U+1EDD">>, <<"U+1EDE","U+1EDF">>,
    <<"U+1EE0","U+1EE1">>, <<"U+1EE2","U+1EE3">>, <<"U+1EE4","U+1EE5">>,
    <<"U+1EE6","U+1EE7">>, <<"U+1EE8","U+1EE9">>, <<"U+1EEA","U+1EEB">>,
    <<"U+1EEC","U+1EED">>, <<"U+1EEE","U+1EEF">>, <<"U+1EF0","U+1EF1">>,
    <<"U+1EF2","U+1EF3">>, <<"U+1EF4","U+1EF5">>, <<"U+1EF6","U+1EF7">>,
    <<"U+1EF8","U+1EF9">>, <<"U+1EFA","U+1EFB">>, <<"U+1EFC","U+1EFD">>,
    <<"U+1EFE","U+1EFF">>, <<"U+1F08","U+1F00">>, <<"U+1F09","U+1F01">>,
    <<"U+1F0A","U+1F02">>, <<"U+1F0B","U+1F03">>, <<"U+1F0C","U+1F04">>,
    <<"U+1F0D","U+1F05">>, <<"U+1F0E","U+1F06">>, <<"U+1F0F","U+1F07">>,
    <<"U+1F18","U+1F10">>, <<"U+1F19","U+1F11">>, <<"U+1F1A","U+1F12">>,
    <<"U+1F1B","U+1F13">>, <<"U+1F1C","U+1F14">>, <<"U+1F1D","U+1F15">>,
    <<"U+1F28","U+1F20">>, <<"U+1F29","U+1F21">>, <<"U+1F2A","U+1F22">>,
    <<"U+1F2B","U+1F23">>, <<"U+1F2C","U+1F24">>, <<"U+1F2D","U+1F25">>,
    <<"U+1F2E","U+1F26">>, <<"U+1F2F","U+1F27">>, <<"U+1F38","U+1F30">>,
    <<"U+1F39","U+1F31">>, <<"U+1F3A","U+1F32">>, <<"U+1F3B","U+1F33">>,
    <<"U+1F3C","U+1F34">>, <<"U+1F3D","U+1F35">>, <<"U+1F3E","U+1F36">>,
    <<"U+1F3F","U+1F37">>, <<"U+1F48","U+1F40">>, <<"U+1F49","U+1F41">>,
    <<"U+1F4A","U+1F42">>, <<"U+1F4B","U+1F43">>, <<"U+1F4C","U+1F44">>,
    <<"U+1F4D","U+1F45">>, <<"U+1F59","U+1F51">>, <<"U+1F5B","U+1F53">>,
    <<"U+1F5D","U+1F55">>, <<"U+1F5F","U+1F57">>, <<"U+1F68","U+1F60">>,
    <<"U+1F69","U+1F61">>, <<"U+1F6A","U+1F62">>, <<"U+1F6B","U+1F63">>,
    <<"U+1F6C","U+1F64">>, <<"U+1F6D","U+1F65">>, <<"U+1F6E","U+1F66">>,
    <<"U+1F6F","U+1F67">>, <<"U+1F88","U+1F80">>, <<"U+1F89","U+1F81">>,
    <<"U+1F8A","U+1F82">>, <<"U+1F8B","U+1F83">>, <<"U+1F8C","U+1F84">>,
    <<"U+1F8D","U+1F85">>, <<"U+1F8E","U+1F86">>, <<"U+1F8F","U+1F87">>,
    <<"U+1F98","U+1F90">>, <<"U+1F99","U+1F91">>, <<"U+1F9A","U+1F92">>,
    <<"U+1F9B","U+1F93">>, <<"U+1F9C","U+1F94">>, <<"U+1F9D","U+1F95">>,
    <<"U+1F9E","U+1F96">>, <<"U+1F9F","U+1F97">>, <<"U+1FA8","U+1FA0">>,
    <<"U+1FA9","U+1FA1">>, <<"U+1FAA","U+1FA2">>, <<"U+1FAB","U+1FA3">>,
    <<"U+1FAC","U+1FA4">>, <<"U+1FAD","U+1FA5">>, <<"U+1FAE","U+1FA6">>,
    <<"U+1FAF","U+1FA7">>, <<"U+1FB8","U+1FB0">>, <<"U+1FB9","U+1FB1">>,
    <<"U+1FBA","U+1F70">>, <<"U+1FBB","U+1F71">>, <<"U+1FBC","U+1FB3">>,
    <<"U+1FC8","U+1F72">>, <<"U+1FC9","U+1F73">>, <<"U+1FCA","U+1F74">>,
    <<"U+1FCB","U+1F75">>, <<"U+1FCC","U+1FC3">>, <<"U+1FD8","U+1FD0">>,
    <<"U+1FD9","U+1FD1">>, <<"U+1FDA","U+1F76">>, <<"U+1FDB","U+1F77">>,
    <<"U+1FE8","U+1FE0">>, <<"U+1FE9","U+1FE1">>, <<"U+1FEA","U+1F7A">>,
    <<"U+1FEB","U+1F7B">>, <<"U+1FEC","U+1FE5">>, <<"U+1FF8","U+1F78">>,
    <<"U+1FF9","U+1F79">>, <<"U+1FFA","U+1F7C">>, <<"U+1FFB","U+1F7D">>,
    <<"U+1FFC","U+1FF3">>, <<"U+2126","U+03C9">>, <<"U+212A","k">>,
    <<"U+212B","U+00E5">>, <<"U+2132","U+214E">>, <<"U+2160","U+2170">>,
    <<"U+2161","U+2171">>, <<"U+2162","U+2172">>, <<"U+2163","U+2173">>,
    <<"U+2164","U+2174">>, <<"U+2165","U+2175">>, <<"U+2166","U+2176">>,
    <<"U+2167","U+2177">>, <<"U+2168","U+2178">>, <<"U+2169","U+2179">>,
    <<"U+216A","U+217A">>, <<"U+216B","U+217B">>, <<"U+216C","U+217C">>,
    <<"U+216D","U+217D">>, <<"U+216E","U+217E">>, <<"U+216F","U+217F">>,
    <<"U+2183","U+2184">>, <<"U+24B6","U+24D0">>, <<"U+24B7","U+24D1">>,
    <<"U+24B8","U+24D2">>, <<"U+24B9","U+24D3">>, <<"U+24BA","U+24D4">>,
    <<"U+24BB","U+24D5">>, <<"U+24BC","U+24D6">>, <<"U+24BD","U+24D7">>,
    <<"U+24BE","U+24D8">>, <<"U+24BF","U+24D9">>, <<"U+24C0","U+24DA">>,
    <<"U+24C1","U+24DB">>, <<"U+24C2","U+24DC">>, <<"U+24C3","U+24DD">>,
    <<"U+24C4","U+24DE">>, <<"U+24C5","U+24DF">>, <<"U+24C6","U+24E0">>,
    <<"U+24C7","U+24E1">>, <<"U+24C8","U+24E2">>, <<"U+24C9","U+24E3">>,
    <<"U+24CA","U+24E4">>, <<"U+24CB","U+24E5">>, <<"U+24CC","U+24E6">>,
    <<"U+24CD","U+24E7">>, <<"U+24CE","U+24E8">>, <<"U+24CF","U+24E9">>,
    <<"U+2C00","U+2C30">>, <<"U+2C01","U+2C31">>, <<"U+2C02","U+2C32">>,
    <<"U+2C03","U+2C33">>, <<"U+2C04","U+2C34">>, <<"U+2C05","U+2C35">>,
    <<"U+2C06","U+2C36">>, <<"U+2C07","U+2C37">>, <<"U+2C08","U+2C38">>,
    <<"U+2C09","U+2C39">>, <<"U+2C0A","U+2C3A">>, <<"U+2C0B","U+2C3B">>,
    <<"U+2C0C","U+2C3C">>, <<"U+2C0D","U+2C3D">>, <<"U+2C0E","U+2C3E">>,
    <<"U+2C0F","U+2C3F">>, <<"U+2C10","U+2C40">>, <<"U+2C11","U+2C41">>,
    <<"U+2C12","U+2C42">>, <<"U+2C13","U+2C43">>, <<"U+2C14","U+2C44">>,
    <<"U+2C15","U+2C45">>, <<"U+2C16","U+2C46">>, <<"U+2C17","U+2C47">>,
    <<"U+2C18","U+2C48">>, <<"U+2C19","U+2C49">>, <<"U+2C1A","U+2C4A">>,
    <<"U+2C1B","U+2C4B">>, <<"U+2C1C","U+2C4C">>, <<"U+2C1D","U+2C4D">>,
    <<"U+2C1E","U+2C4E">>, <<"U+2C1F","U+2C4F">>, <<"U+2C20","U+2C50">>,
    <<"U+2C21","U+2C51">>, <<"U+2C22","U+2C52">>, <<"U+2C23","U+2C53">>,
    <<"U+2C24","U+2C54">>, <<"U+2C25","U+2C55">>, <<"U+2C26","U+2C56">>,
    <<"U+2C27","U+2C57">>, <<"U+2C28","U+2C58">>, <<"U+2C29","U+2C59">>,
    <<"U+2C2A","U+2C5A">>, <<"U+2C2B","U+2C5B">>, <<"U+2C2C","U+2C5C">>,
    <<"U+2C2D","U+2C5D">>, <<"U+2C2E","U+2C5E">>, <<"U+2C2F","U+2C5F">>,
    <<"U+2C60","U+2C61">>, <<"U+2C62","U+026B">>, <<"U+2C63","U+1D7D">>,
    <<"U+2C64","U+027D">>, <<"U+2C67","U+2C68">>, <<"U+2C69","U+2C6A">>,
    <<"U+2C6B","U+2C6C">>, <<"U+2C6D","U+0251">>, <<"U+2C6E","U+0271">>,
    <<"U+2C6F","U+0250">>, <<"U+2C70","U+0252">>, <<"U+2C72","U+2C73">>,
    <<"U+2C75","U+2C76">>, <<"U+2C7E","U+023F">>, <<"U+2C7F","U+0240">>,
    <<"U+2C80","U+2C81">>, <<"U+2C82","U+2C83">>, <<"U+2C84","U+2C85">>,
    <<"U+2C86","U+2C87">>, <<"U+2C88","U+2C89">>, <<"U+2C8A","U+2C8B">>,
    <<"U+2C8C","U+2C8D">>, <<"U+2C8E","U+2C8F">>, <<"U+2C90","U+2C91">>,
    <<"U+2C92","U+2C93">>, <<"U+2C94","U+2C95">>, <<"U+2C96","U+2C97">>,
    <<"U+2C98","U+2C99">>, <<"U+2C9A","U+2C9B">>, <<"U+2C9C","U+2C9D">>,
    <<"U+2C9E","U+2C9F">>, <<"U+2CA0","U+2CA1">>, <<"U+2CA2","U+2CA3">>,
    <<"U+2CA4","U+2CA5">>, <<"U+2CA6","U+2CA7">>, <<"U+2CA8","U+2CA9">>,
    <<"U+2CAA","U+2CAB">>, <<"U+2CAC","U+2CAD">>, <<"U+2CAE","U+2CAF">>,
    <<"U+2CB0","U+2CB1">>, <<"U+2CB2","U+2CB3">>, <<"U+2CB4","U+2CB5">>,
    <<"U+2CB6","U+2CB7">>, <<"U+2CB8","U+2CB9">>, <<"U+2CBA","U+2CBB">>,
    <<"U+2CBC","U+2CBD">>, <<"U+2CBE","U+2CBF">>, <<"U+2CC0","U+2CC1">>,
    <<"U+2CC2","U+2CC3">>, <<"U+2CC4","U+2CC5">>, <<"U+2CC6","U+2CC7">>,
    <<"U+2CC8","U+2CC9">>, <<"U+2CCA","U+2CCB">>, <<"U+2CCC","U+2CCD">>,
    <<"U+2CCE","U+2CCF">>, <<"U+2CD0","U+2CD1">>, <<"U+2CD2","U+2CD3">>,
    <<"U+2CD4","U+2CD5">>, <<"U+2CD6","U+2CD7">>, <<"U+2CD8","U+2CD9">>,
    <<"U+2CDA","U+2CDB">>, <<"U+2CDC","U+2CDD">>, <<"U+2CDE","U+2CDF">>,
    <<"U+2CE0","U+2CE1">>, <<"U+2CE2","U+2CE3">>, <<"U+2CEB","U+2CEC">>,
    <<"U+2CED","U+2CEE">>, <<"U+2CF2","U+2CF3">>, <<"U+A640","U+A641">>,
    <<"U+A642","U+A643">>, <<"U+A644","U+A645">>, <<"U+A646","U+A647">>,
    <<"U+A648","U+A649">>, <<"U+A64A","U+A64B">>, <<"U+A64C","U+A64D">>,
    <<"U+A64E","U+A64F">>, <<"U+A650","U+A651">>, <<"U+A652","U+A653">>,
    <<"U+A654","U+A655">>, <<"U+A656","U+A657">>, <<"U+A658","U+A659">>,
    <<"U+A65A","U+A65B">>, <<"U+A65C","U+A65D">>, <<"U+A65E","U+A65F">>,
    <<"U+A660","U+A661">>, <<"U+A662","U+A663">>, <<"U+A664","U+A665">>,
    <<"U+A666","U+A667">>, <<"U+A668","U+A669">>, <<"U+A66A","U+A66B">>,
    <<"U+A66C","U+A66D">>, <<"U+A680","U+A681">>, <<"U+A682","U+A683">>,
    <<"U+A684","U+A685">>, <<"U+A686","U+A687">>, <<"U+A688","U+A689">>,
    <<"U+A68A","U+A68B">>, <<"U+A68C","U+A68D">>, <<"U+A68E","U+A68F">>,
    <<"U+A690","U+A691">>, <<"U+A692","U+A693">>, <<"U+A694","U+A695">>,
    <<"U+A696","U+A697">>, <<"U+A698","U+A699">>, <<"U+A69A","U+A69B">>,
    <<"U+A722","U+A723">>, <<"U+A724","U+A725">>, <<"U+A726","U+A727">>,
    <<"U+A728","U+A729">>, <<"U+A72A","U+A72B">>, <<"U+A72C","U+A72D">>,
    <<"U+A72E","U+A72F">>, <<"U+A732","U+A733">>, <<"U+A734","U+A735">>,
    <<"U+A736","U+A737">>, <<"U+A738","U+A739">>, <<"U+A73A","U+A73B">>,
    <<"U+A73C","U+A73D">>, <<"U+A73E","U+A73F">>, <<"U+A740","U+A741">>,
    <<"U+A742","U+A743">>, <<"U+A744","U+A745">>, <<"U+A746","U+A747">>,
    <<"U+A748","U+A749">>, <<"U+A74A","U+A74B">>, <<"U+A74C","U+A74D">>,
    <<"U+A74E","U+A74F">>, <<"U+A750","U+A751">>, <<"U+A752","U+A753">>,
    <<"U+A754","U+A755">>, <<"U+A756","U+A757">>, <<"U+A758","U+A759">>,
    <<"U+A75A","U+A75B">>, <<"U+A75C","U+A75D">>, <<"U+A75E","U+A75F">>,
    <<"U+A760","U+A761">>, <<"U+A762","U+A763">>, <<"U+A764","U+A765">>,
    <<"U+A766","U+A767">>, <<"U+A768","U+A769">>, <<"U+A76A","U+A76B">>,
    <<"U+A76C","U+A76D">>, <<"U+A76E","U+A76F">>, <<"U+A779","U+A77A">>,
    <<"U+A77B","U+A77C">>, <<"U+A77D","U+1D79">>, <<"U+A77E","U+A77F">>,
    <<"U+A780","U+A781">>, <<"U+A782","U+A783">>, <<"U+A784","U+A785">>,
    <<"U+A786","U+A787">>, <<"U+A78B","U+A78C">>, <<"U+A78D","U+0265">>,
    <<"U+A790","U+A791">>, <<"U+A792","U+A793">>, <<"U+A796","U+A797">>,
    <<"U+A798","U+A799">>, <<"U+A79A","U+A79B">>, <<"U+A79C","U+A79D">>,
    <<"U+A79E","U+A79F">>, <<"U+A7A0","U+A7A1">>, <<"U+A7A2","U+A7A3">>,
    <<"U+A7A4","U+A7A5">>, <<"U+A7A6","U+A7A7">>, <<"U+A7A8","U+A7A9">>,
    <<"U+A7AA","U+0266">>, <<"U+A7AB","U+025C">>, <<"U+A7AC","U+0261">>,
    <<"U+A7AD","U+026C">>, <<"U+A7AE","U+026A">>, <<"U+A7B0","U+029E">>,
    <<"U+A7B1","U+0287">>, <<"U+A7B2","U+029D">>, <<"U+A7B3","U+AB53">>,
    <<"U+A7B4","U+A7B5">>, <<"U+A7B6","U+A7B7">>, <<"U+A7B8","U+A7B9">>,
    <<"U+A7BA","U+A7BB">>, <<"U+A7BC","U+A7BD">>, <<"U+A7BE","U+A7BF">>,
    <<"U+A7C0","U+A7C1">>, <<"U+A7C2","U+A7C3">>, <<"U+A7C4","U+A794">>,
    <<"U+A7C5","U+0282">>, <<"U+A7C6","U+1D8E">>, <<"U+A7C7","U+A7C8">>,
    <<"U+A7C9","U+A7CA">>, <<"U+A7CB","U+0264">>, <<"U+A7CC","U+A7CD">>,
    <<"U+A7CE","U+A7CF">>, <<"U+A7D0","U+A7D1">>, <<"U+A7D2","U+A7D3">>,
    <<"U+A7D4","U+A7D5">>, <<"U+A7D6","U+A7D7">>, <<"U+A7D8","U+A7D9">>,
    <<"U+A7DA","U+A7DB">>, <<"U+A7DC","U+019B">>, <<"U+A7F5","U+A7F6">>,
    <<"U+FF21","U+FF41">>, <<"U+FF22","U+FF42">>, <<"U+FF23","U+FF43">>,
    <<"U+FF24","U+FF44">>, <<"U+FF25","U+FF45">>, <<"U+FF26","U+FF46">>,
    <<"U+FF27","U+FF47">>, <<"U+FF28","U+FF48">>, <<"U+FF29","U+FF49">>,
    <<"U+FF2A","U+FF4A">>, <<"U+FF2B","U+FF4B">>, <<"U+FF2C","U+FF4C">>,
    <<"U+FF2D","U+FF4D">>, <<"U+FF2E","U+FF4E">>, <<"U+FF2F","U+FF4F">>,
    <<"U+FF30","U+FF50">>, <<"U+FF31","U+FF51">>, <<"U+FF32","U+FF52">>,
    <<"U+FF33","U+FF53">>, <<"U+FF34","U+FF54">>, <<"U+FF35","U+FF55">>,
    <<"U+FF36","U+FF56">>, <<"U+FF37","U+FF57">>, <<"U+FF38","U+FF58">>,
    <<"U+FF39","U+FF59">>, <<"U+FF3A","U+FF5A">>
  }

\* the same for the supplementary planes: <<high surrogate, <<low surrogate,
\* low surrogate of the mapping>>>>; the high surrogate is never changed
LowerCaseAstral ==
  ({"U+D801"} \X {
      <<"U+DC00","U+DC28">>, <<"U+DC01","U+DC29">>, <<"U+DC02","U+DC2A">>,
      <<"U+DC03","U+DC2B">>, <<"U+DC04","U+DC2C">>, <<"U+DC05","U+DC2D">>,
      <<"U+DC06","U+DC2E">>, <<"U+DC07","U+DC2F">>, <<"U+DC08","U+DC30">>,
      <<"U+DC09","U+DC31">>, <<"U+DC0A","U+DC32">>, <<"U+DC0B","U+DC33">>,
      <<"U+DC0C","U+DC34">>, <<"U+DC0D","U+DC35">>, <<"U+DC0E","U+DC36">>,
      <<"U+DC0F","U+DC37">>, <<"U+DC10","U+DC38">>, <<"U+DC11","U+DC39">>,
      <<"U+DC12","U+DC3A">>, <<"U+DC13","U+DC3B">>, <<"U+DC14","U+DC3C">>,
      <<"U+DC15","U+DC3D">>, <<"U+DC16","U+DC3E">>, <<"U+DC17","U+DC3F">>,
      <<"U+DC18","U+DC40">>, <<"U+DC19","U+DC41">>, <<"U+DC1A","U+DC42">>,
      <<"U+DC1B","U+DC43">>, <<"U+DC1C","U+DC44">>, <<"U+DC1D","U+DC45">>,
      <<"U+DC1E","U+DC46">>, <<"U+DC1F","U+DC47">>, <<"U+DC20","U+DC48">>,
      <<"U+DC21","U+DC49">>, <<"U+DC22","U+DC4A">>, <<"U+DC23","U+DC4B">>,
      <<"U+DC24","U+DC4C">>, <<"U+DC25","U+DC4D">>, <<"U+DC26","U+DC4E">>,
      <<"U+DC27","U+DC4F">>, <<"U+DCB0","U+DCD8">>, <<"U+DCB1","U+DCD9">>,
      <<"U+DCB2","U+DCDA">>, <<"U+DCB3","U+DCDB">>, <<"U+DCB4","U+DCDC">>,
      <<"U+DCB5","U+DCDD">>, <<"U+DCB6","U+DCDE">>, <<"U+DCB7","U+DCDF">>,
      <<"U+DCB8","U+DCE0">>, <<"U+DCB9","U+DCE1">>, <<"U+DCBA","U+DCE2">>,
      <<"U+DCBB","U+DCE3">>, <<"U+DCBC","U+DCE4">>, <<"U+DCBD","U+DCE5">>,
      <<"U+DCBE","U+DCE6">>, <<"U+DCBF","U+DCE7">>, <<"U+DCC0","U+DCE8">>,
      <<"U+DCC1","U+DCE9">>, <<"U+DCC2","U+DCEA">>, <<"U+DCC3","U+DCEB">>,
      <<"U+DCC4","U+DCEC">>, <<"U+DCC5","U+DCED">>, <<"U+DCC6","U+DCEE">>,
      <<"U+DCC7","U+DCEF">>, <<"U+DCC8","U+DCF0">>, <<"U+DCC9","U+DCF1">>,
      <<"U+DCCA","U+DCF2">>, <<"U+DCCB","U+DCF3">>, <<"U+DCCC","U+DCF4">>,
      <<"U+DCCD","U+DCF5">>, <<"U+DCCE","U+DCF6">>, <<"U+DCCF","U+DCF7">>,
      <<"U+DCD0","U+DCF8">>, <<"U+DCD1","U+DCF9">>, <<"U+DCD2","U+DCFA">>,
      <<"U+DCD3","U+DCFB">>, <<"U+DD70","U+DD97">>, <<"U+DD71","U+DD98">>,
      <<"U+DD72","U+DD99">>, <<"U+DD73","U+DD9A">>, <<"U+DD74","U+DD9B">>,
      <<"U+DD75","U+DD9C">>, <<"U+DD76","U+DD9D">>, <<"U+DD77","U+DD9E">>,
      <<"U+DD78","U+DD9F">>, <<"U+DD79","U+DDA0">>, <<"U+DD7A","U+DDA1">>,
      <<"U+DD7C","U+DDA3">>, <<"U+DD7D","U+DDA4">>, <<"U+DD7E","U+DDA5">>,
      <<"U+DD7F","U+DDA6">>, <<"U+DD80","U+DDA7">>, <<"U+DD81","U+DDA8">>,
      <<"U+DD82","U+DDA9">>, <<"U+DD83","U+DDAA">>, <<"U+DD84","U+DDAB">>,
      <<"U+DD85","U+DDAC">>, <<"U+DD86","U+DDAD">>, <<"U+DD87","U+DDAE">>,
      <<"U+DD88","U+DDAF">>, <<"U+DD89","U+DDB0">>, <<"U+DD8A","U+DDB1">>,
      <<"U+DD8C","U+DDB3">>, <<"U+DD8D","U+DDB4">>, <<"U+DD8E","U+DDB5">>,
      <<"U+DD8F","U+DDB6">>, <<"U+DD90","U+DDB7">>, <<"U+DD91","U+DDB8">>,
      <<"U+DD92","U+DDB9">>, <<"U+DD94","U+DDBB">>, <<"U+DD95","U+DDBC">> })
  \cup
  ({"U+D803"} \X {
      <<"U+DC80","U+DCC0">>, <<"U+DC81","U+DCC1">>, <<"U+DC82","U+DCC2">>,
      <<"U+DC83","U+DCC3">>, <<"U+DC84","U+DCC4">>, <<"U+DC85","U+DCC5">>,
      <<"U+DC86","U+DCC6">>, <<"U+DC87","U+DCC7">>, <<"U+DC88","U+DCC8">>,
      <<"U+DC89","U+DCC9">>, <<"U+DC8A","U+DCCA">>, <<"U+DC8B","U+DCCB">>,
      <<"U+DC8C","U+DCCC">>, <<"U+DC8D","U+DCCD">>, <<"U+DC8E","U+DCCE">>,
      <<"U+DC8F","U+DCCF">>, <<"U+DC90","U+DCD0">>, <<"U+DC91","U+DCD1">>,
      <<"U+DC92","U+DCD2">>, <<"U+DC93","U+DCD3">>, <<"U+DC94","U+DCD4">>,
      <<"U+DC95","U+DCD5">>, <<"U+DC96","U+DCD6">>, <<"U+DC97","U+DCD7">>,
      <<"U+DC98","U+DCD8">>, <<"U+DC99","U+DCD9">>, <<"U+DC9A","U+DCDA">>,
      <<"U+DC9B","U+DCDB">>, <<"U+DC9C","U+DCDC">>, <<"U+DC9D","U+DCDD">>,
      <<"U+DC9E","U+DCDE">>, <<"U+DC9F","U+DCDF">>, <<"U+DCA0","U+DCE0">>,
      <<"U+DCA1","U+DCE1">>, <<"U+DCA2","U+DCE2">>, <<"U+DCA3","U+DCE3">>,
      <<"U+DCA4","U+DCE4">>, <<"U+DCA5","U+DCE5">>, <<"U+DCA6","U+DCE6">>,
      <<"U+DCA7","U+DCE7">>, <<"U+DCA8","U+DCE8">>, <<"U+DCA9","U+DCE9">>,
      <<"U+DCAA","U+DCEA">>, <<"U+DCAB","U+DCEB">>, <<"U+DCAC","U+DCEC">>,
      <<"U+DCAD","U+DCED">>, <<"U+DCAE","U+DCEE">>, <<"U+DCAF","U+DCEF">>,
      <<"U+DCB0","U+DCF0">>, <<"U+DCB1","U+DCF1">>, <<"U+DCB2","U+DCF2">>,
      <<"U+DD50","U+DD70">>, <<"U+DD51","U+DD71">>, <<"U+DD52","U+DD72">>,
      <<"U+DD53","U+DD73">>, <<"U+DD54","U+DD74">>, <<"U+DD55","U+DD75">>,
      <<"U+DD56","U+DD76">>, <<"U+DD57","U+DD77">>, <<"U+DD58","U+DD78">>,
      <<"U+DD59","U+DD79">>, <<"U+DD5A","U+DD7A">>, <<"U+DD5B","U+DD7B">>,
      <<"U+DD5C","U+DD7C">>, <<"U+DD5D","U+DD7D">>, <<"U+DD5E","U+DD7E">>,
      <<"U+DD5F","U+DD7F">>, <<"U+DD60","U+DD80">>, <<"U+DD61","U+DD81">>,
      <<"U+DD62","U+DD82">>, <<"U+DD63","U+DD83">>, <<"U+DD64","U+DD84">>,
      <<"U+DD65","U+DD85">> })
  \cup
  ({"U+D806"} \X {
      <<"U+DCA0","U+DCC0">>, <<"U+DCA1","U+DCC1">>, <<"U+DCA2","U+DCC2">>,
      <<"U+DCA3","U+DCC3">>, <<"U+DCA4","U+DCC4">>, <<"U+DCA5","U+DCC5">>,
      <<"U+DCA6","U+DCC6">>, <<"U+DCA7","U+DCC7">>, <<"U+DCA8","U+DCC8">>,
      <<"U+DCA9","U+DCC9">>, <<"U+DCAA","U+DCCA">>, <<"U+DCAB","U+DCCB">>,
      <<"U+DCAC","U+DCCC">>, <<"U+DCAD","U+DCCD">>, <<"U+DCAE","U+DCCE">>,
      <<"U+DCAF","U+DCCF">>, <<"U+DCB0","U+DCD0">>, <<"U+DCB1","U+DCD1">>,
      <<"U+DCB2","U+DCD2">>, <<"U+DCB3","U+DCD3">>, <<"U+DCB4","U+DCD4">>,
      <<"U+DCB5","U+DCD5">>, <<"U+DCB6","U+DCD6">>, <<"U+DCB7","U+DCD7">>,
      <<"U+DCB8","U+DCD8">>, <<"U+DCB9","U+DCD9">>, <<"U+DCBA","U+DCDA">>,
      <<"U+DCBB","U+DCDB">>, <<"U+DCBC","U+DCDC">>, <<"U+DCBD","U+DCDD">>,
      <<"U+DCBE","U+DCDE">>, <<"U+DCBF","U+DCDF">> })
  \cup
  ({"U+D81B"} \X {
      <<"U+DE40","U+DE60">>, <<"U+DE41","U+DE61">>, <<"U+DE42","U+DE62">>,
      <<"U+DE43","U+DE63">>, <<"U+DE44","U+DE64">>, <<"U+DE45","U+DE65">>,
      <<"U+DE46","U+DE66">>, <<"U+DE47","U+DE67">>, <<"U+DE48","U+DE68">>,
      <<"U+DE49","U+DE69">>, <<"U+DE4A","U+DE6A">>, <<"U+DE4B","U+DE6B">>,
      <<"U+DE4C","U+DE6C">>, <<"U+DE4D","U+DE6D">>, <<"U+DE4E","U+DE6E">>,
      <<"U+DE4F","U+DE6F">>, <<"U+DE50","U+DE70">>, <<"U+DE51","U+DE71">>,
      <<"U+DE52","U+DE72">>, <<"U+DE53","U+DE73">>, <<"U+DE54","U+DE74">>,
      <<"U+DE55","U+DE75">>, <<"U+DE56","U+DE76">>, <<"U+DE57","U+DE77">>,
      <<"U+DE58","U+DE78">>, <<"U+DE59","U+DE79">>, <<"U+DE5A","U+DE7A">>,
      <<"U+DE5B","U+DE7B">>, <<"U+DE5C","U+DE7C">>, <<"U+DE5D","U+DE7D">>,
      <<"U+DE5E","U+DE7E">>, <<"U+DE5F","U+DE7F">>, <<"U+DEA0","U+DEBB">>,
      <<"U+DEA1","U+DEBC">>, <<"U+DEA2","U+DEBD">>, <<"U+DEA3","U+DEBE">>,
      <<"U+DEA4","U+DEBF">>, <<"U+DEA5","U+DEC0">>, <<"U+DEA6","U+DEC1">>,
      <<"U+DEA7","U+DEC2">>, <<"U+DEA8","U+DEC3">>, <<"U+DEA9","U+DEC4">>,
      <<"U+DEAA","U+DEC5">>, <<"U+DEAB","U+DEC6">>, <<"U+DEAC","U+DEC7">>,
      <<"U+DEAD","U+DEC8">>, <<"U+DEAE","U+DEC9">>, <<"U+DEAF","U+DECA">>,
      <<"U+DEB0","U+DECB">>, <<"U+DEB1","U+DECC">>, <<"U+DEB2","U+DECD">>,
      <<"U+DEB3","U+DECE">>, <<"U+DEB4","U+DECF">>, <<"U+DEB5","U+DED0">>,
      <<"U+DEB6","U+DED1">>, <<"U+DEB7","U+DED2">>, <<"U+DEB8","U+DED3">> })
  \cup
  ({"U+D83A"} \X {
      <<"U+DD00","U+DD22">>, <<"U+DD01","U+DD23">>, <<"U+DD02","U+DD24">>,
      <<"U+DD03","U+DD25">>, <<"U+DD04","U+DD26">>, <<"U+DD05","U+DD27">>,
      <<"U+DD06","U+DD28">>, <<"U+DD07","U+DD29">>, <<"U+DD08","U+DD2A">>,
      <<"U+DD09","U+DD2B">>, <<"U+DD0A","U+DD2C">>, <<"U+DD0B","U+DD2D">>,
      <<"U+DD0C","U+DD2E">>, <<"U+DD0D","U+DD2F">>, <<"U+DD0E","U+DD30">>,
      <<"U+DD0F","U+DD31">>, <<"U+DD10","U+DD32">>, <<"U+DD11","U+DD33">>,
      <<"U+DD12","U+DD34">>, <<"U+DD13","U+DD35">>, <<"U+DD14","U+DD36">>,
      <<"U+DD15","U+DD37">>, <<"U+DD16","U+DD38">>, <<"U+DD17","U+DD39">>,
      <<"U+DD18","U+DD3A">>, <<"U+DD19","U+DD3B">>, <<"U+DD1A","U+DD3C">>,
      <<"U+DD1B","U+DD3D">>, <<"U+DD1C","U+DD3E">>, <<"U+DD1D","U+DD3F">>,
      <<"U+DD1E","U+DD40">>, <<"U+DD1F","U+DD41">>, <<"U+DD20","U+DD42">>,
      <<"U+DD21","U+DD43">> })

\* code points of the Basic Multilingual Plane with the property Cased and
\* without Case_Ignorable (Unicode 17.0.0, DerivedCoreProperties.txt)
CasedBMP ==
  {
    "A", "B", "C", "D", "E", "F", "G", "H", "I", "J", "K", "L", "M", "N",
    "O", "P", "Q", "R", "S", "T", "U", "V", "W", "X", "Y", "Z", "a", "b",
    "c", "d", "e", "f", "g", "h", "i", "j", "k", "l", "m", "n", "o", "p",
    "q", "r", "s", "t", "u", "v", "w", "x", "y", "z", "U+00AA", "U+00B5",
    "U+00BA", "U+00C0", "U+00C1", "U+00C2", "U+00C3", "U+00C4", "U+00C5",
    "U+00C6", "U+00C7", "U+00C8", "U+00C9", "U+00CA", "U+00CB", "U+00CC",
    "U+00CD", "U+00CE", "U+00CF", "U+00D0", "U+00D1", "U+00D2", "U+00D3",
    "U+00D4", "U+00D5", "U+00D6", "U+00D8", "U+00D9", "U+00DA", "U+00DB",
    "U+00DC", "U+00DD", "U+00DE", "U+00DF", "U+00E0", "U+00E1", "U+00E2",
    "U+00E3", "U+00E4", "U+00E5", "U+00E6", "U+00E7", "U+00E8", "U+00E9",
    "U+00EA", "U+00EB", "U+00EC", "U+00ED", "U+00EE", "U+00EF", "U+00F0",
    "U+00F1", "U+00F2", "U+00F3", "U+00F4", "U+00F5", "U+00F6", "U+00F8",
    "U+00F9", "U+00FA", "U+00FB", "U+00FC", "U+00FD", "U+00FE", "U+00FF",
    "U+0100", "U+0101", "U+0102", "U+0103", "U+0104", "U+0105", "U+0106",
    "U+0107", "U+0108", "U+0109", "U+010A", "U+010B", "U+010C", "U+010D",
    "U+010E", "U+010F", "U+0110", "U+0111", "U+0112", "U+0113", "U+0114",
    "U+0115", "U+0116", "U+0117", "U+0118", "U+0119", "U+011A", "U+011B",
    "U+011C", "U+011D", "U+011E", "U+011F", "U+0120", "U+0121", "U+0122",
    "U+0123", "U+0124", "U+0125", "U+0126", "U+0127", "U+0128", "U+0129",
    "U+012A", "U+012B", "U+012C", "U+012D", "U+012E", "U+012F", "U+0130",
    "U+0131", "U+0132", "U+0133", "U+0134", "U+0135", "U+0136", "U+0137",
    "U+0138", "U+0139", "U+013A", "U+013B", "U+013C", "U+013D", "U+013E",
    "U+013F", "U+0140", "U+0141", "U+0142", "U+0143", "U+0144", "U+0145",
    "U+0146", "U+0147", "U+0148", "U+0149", "U+014A", "U+014B", "U+014C",
    "U+014D", "U+014E", "U+014F", "U+0150", "U+0151", "U+0152", "U+0153",
    "U+0154", "U+0155", "U+0156", "U+0157", "U+0158", "U+0159", "U+015A",
    "U+015B", "U+015C", "U+015D", "U+015E", "U+015F", "U+0160", "U+0161",
    "U+0162", "U+0163", "U+0164", "U+0165", "U+0166", "U+0167", "U+0168",
    "U+0169", "U+016A", "U+016B", "U+016C", "U+016D", "U+016E", "U+016F",
    "U+0170", "U+0171", "U+0172", "U+0173", "U+0174", "U+0175", "U+0176",
    "U+0177", "U+0178", "U+0179", "U+017A", "U+017B", "U+017C", "U+017D",
    "U+017E", "U+017F", "U+0180", "U+0181", "U+0182", "U+0183", "U+0184",
    "U+0185", "U+0186", "U+0187", "U+0188", "U+0189", "U+018A", "U+018B",
    "U+018C", "U+018D", "U+018E", "U+018F", "U+0190", "U+0191", "U+0192",
    "U+0193", "U+0194", "U+0195", "U+0196", "U+0197", "U+0198", "U+0199",
    "U+019A", "U+019B", "U+019C", "U+019D", "U+019E", "U+019F", "U+01A0",
    "U+01A1", "U+01A2", "U+01A3", "U+01A4", "U+01A5", "U+01A6", "U+01A7",
    "U+01A8", "U+01A9", "U+01AA", "U+01AB", "U+01AC", "U+01AD", "U+01AE",
    "U+01AF", "U+01B0", "U+01B1", "U+01B2", "U+01B3", "U+01B4", "U+01B5",
    "U+01B6", "U+01B7", "U+01B8", "U+01B9", "U+01BA", "U+01BC", "U+01BD",
    "U+01BE", "U+01BF", "U+01C4", "U+01C5", "U+01C6", "U+01C7", "U+01C8",
    "U+01C9", "U+01CA", "U+01CB", "U+01CC", "U+01CD", "U+01CE", "U+01CF",
    "U+01D0", "U+01D1", "U+01D2", "U+01D3", "U+01D4", "U+01D5", "U+01D6",
    "U+01D7", "U+01D8", "U+01D9", "U+01DA", "U+01DB", "U+01DC", "U+01DD",
    "U+01DE", "U+01DF", "U+01E0", "U+01E1", "U+01E2", "U+01E3", "U+01E4",
    "U+01E5", "U+01E6", "U+01E7", "U+01E8", "U+01E9", "U+01EA", "U+01EB",
    "U+01EC", "U+01ED", "U+01EE", "U+01EF", "U+01F0", "U+01F1", "U+01F2",
    "U+01F3", "U+01F4", "U+01F5", "U+01F6", "U+01F7", "U+01F8", "U+01F9",
    "U+01FA", "U+01FB", "U+01FC", "U+01FD", "U+01FE", "U+01FF", "U+0200",
    "U+0201", "U+0202", "U+0203", "U+0204", "U+0205", "U+0206", "U+0207",
    "U+0208", "U+0209", "U+020A", "U+020B", "U+020C", "U+020D", "U+020E",
    "U+020F", "U+0210", "U+0211", "U+0212", "U+0213", "U+0214", "U+0215",
    "U+0216", "U+0217", "U+0218", "U+0219", "U+021A", "U+021B", "U+021C",
    "U+021D", "U+021E", "U+021F", "U+0220", "U+0221", "U+0222", "U+0223",
    "U+0224", "U+0225", "U+0226", "U+0227", "U+0228", "U+0229", "U+022A",
    "U+022B", "U+022C", "U+022D", "U+022E", "U+022F", "U+0230", "U+0231",
    "U+0232", "U+0233", "U+0234", "U+0235", "U+0236", "U+0237", "U+0238",
    "U+0239", "U+023A", "U+023B", "U+023C", "U+023D", "U+023E", "U+023F",
    "U+0240", "U+0241", "U+0242", "U+0243", "U+0244", "U+0245", "U+0246",
    "U+0247", "U+0248", "U+0249", "U+024A", "U+024B", "U+024C", "U+024D",
    "U+024E", "U+024F", "U+0250", "U+0251", "U+0252", "U+0253", "U+0254",
    "U+0255", "U+0256", "U+0257", "U+0258", "U+0259", "U+025A", "U+025B",
    "U+025C", "U+025D", "U+025E", "U+025F", "U+0260", "U+0261", "U+0262",
    "U+0263", "U+0264", "U+0265", "U+0266", "U+0267", "U+0268", "U+0269",
    "U+026A", "U+026B", "U+026C", "U+026D", "U+026E", "U+026F", "U+0270",
    "U+0271", "U+0272", "U+0273", "U+0274", "U+0275", "U+0276", "U+0277",
    "U+0278", "U+0279", "U+027A", "U+027B", "U+027C", "U+027D", "U+027E",
    "U+027F", "U+0280", "U+0281", "U+0282", "U+0283", "U+0284", "U+0285",
    "U+0286", "U+0287", "U+0288", "U+0289", "U+028A", "U+028B", "U+028C",
    "U+028D", "U+028E", "U+028F", "U+0290", "U+0291", "U+0292", "U+0293",
    "U+0296", "U+0297", "U+0298", "U+0299", "U+029A", "U+029B", "U+029C",
    "U+029D", "U+029E", "U+029F", "U+02A0", "U+02A1", "U+02A2", "U+02A3",
    "U+02A4", "U+02A5", "U+02A6", "U+02A7", "U+02A8", "U+02A9", "U+02AA",
    "U+02AB", "U+02AC", "U+02AD", "U+02AE", "U+02AF", "U+0370", "U+0371",
    "U+0372", "U+0373", "U+0376", "U+0377", "U+037B", "U+037C", "U+037D",
    "U+037F", "U+0386", "U+0388", "U+0389", "U+038A", "U+038C", "U+038E",
    "U+038F", "U+0390", "U+0391", "U+0392", "U+0393", "U+0394", "U+0395",
    "U+0396", "U+0397", "U+0398", "U+0399", "U+039A", "U+039B", "U+039C",
    "U+039D", "U+039E", "U+039F", "U+03A0", "U+03A1", "U+03A3", "U+03A4",
    "U+03A5", "U+03A6", "U+03A7", "U+03A8", "U+03A9", "U+03AA", "U+03AB",
    "U+03AC", "U+03AD", "U+03AE", "U+03AF", "U+03B0", "U+03B1", "U+03B2",
    "U+03B3", "U+03B4", "U+03B5", "U+03B6", "U+03B7", "U+03B8", "U+03B9",
    "U+03BA", "U+03BB", "U+03BC", "U+03BD", "U+03BE", "U+03BF", "U+03C0",
    "U+03C1", "U+03C2", "U+03C3", "U+03C4", "U+03C5", "U+03C6", "U+03C7",
    "U+03C8", "U+03C9", "U+03CA", "U+03CB", "U+03CC", "U+03CD", "U+03CE",
    "U+03CF", "U+03D0", "U+03D1", "U+03D2", "U+03D3", "U+03D4", "U+03D5",
    "U+03D6", "U+03D7", "U+03D8", "U+03D9", "U+03DA", "U+03DB", "U+03DC",
    "U+03DD", "U+03DE", "U+03DF", "U+03E0", "U+03E1", "U+03E2", "U+03E3",
    "U+03E4", "U+03E5", "U+03E6", "U+03E7", "U+03E8", "U+03E9", "U+03EA",
    "U+03EB", "U+03EC", "U+03ED", "U+03EE", "U+03EF", "U+03F0", "U+03F1",
    "U+03F2", "U+03F3", "U+03F4", "U+03F5", "U+03F7", "U+03F8", "U+03F9",
    "U+03FA", "U+03FB", "U+03FC", "U+03FD", "U+03FE", "U+03FF", "U+0400",
    "U+0401", "U+0402", "U+0403", "U+0404", "U+0405", "U+0406", "U+0407",
    "U+0408", "U+0409", "U+040A", "U+040B", "U+040C", "U+040D", "U+040E",
    "U+040F", "U+0410", "U+0411", "U+0412", "U+0413", "U+0414", "U+0415",
    "U+0416", "U+0417", "U+0418", "U+0419", "U+041A", "U+041B", "U+041C",
    "U+041D", "U+041E", "U+041F", "U+0420", "U+0421", "U+0422", "U+0423",
    "U+0424", "U+0425", "U+0426", "U+0427", "U+0428", "U+0429", "U+042A",
    "U+042B", "U+042C", "U+042D", "U+042E", "U+042F", "U+0430", "U+0431",
    "U+0432", "U+0433", "U+0434", "U+0435", "U+0436", "U+0437", "U+0438",
    "U+0439", "U+043A", "U+043B", "U+043C", "U+043D", "U+043E", "U+043F",
    "U+0440", "U+0441", "U+0442", "U+0443", "U+0444", "U+0445", "U+0446",
    "U+0447", "U+0448", "U+0449", "U+044A", "U+044B", "U+044C", "U+044D",
    "U+044E", "U+044F", "U+0450", "U+0451", "U+0452", "U+0453", "U+0454",
    "U+0455", "U+0456", "U+0457", "U+0458", "U+0459", "U+045A", "U+045B",
    "U+045C", "U+045D", "U+045E", "U+045F", "U+0460", "U+0461", "U+0462",
    "U+0463", "U+0464", "U+0465", "U+0466", "U+0467", "U+0468", "U+0469",
    "U+046A", "U+046B", "U+046C", "U+046D", "U+046E", "U+046F", "U+0470",
    "U+0471", "U+0472", "U+0473", "U+0474", "U+0475", "U+0476", "U+0477",
    "U+0478", "U+0479", "U+047A", "U+047B", "U+047C", "U+047D", "U+047E",
    "U+047F", "U+0480", "U+0481", "U+048A", "U+048B", "U+048C", "U+048D",
    "U+048E", "U+048F", "U+0490", "U+0491", "U+0492", "U+0493", "U+0494",
    "U+0495", "U+0496", "U+0497", "U+0498", "U+0499", "U+049A", "U+049B",
    "U+049C", "U+049D", "U+049E", "U+049F", "U+04A0", "U+04A1", "U+04A2",
    "U+04A3", "U+04A4", "U+04A5", "U+04A6", "U+04A7", "U+04A8", "U+04A9",
    "U+04AA", "U+04AB", "U+04AC", "U+04AD", "U+04AE", "U+04AF", "U+04B0",
    "U+04B1", "U+04B2", "U+04B3", "U+04B4", "U+04B5", "U+04B6", "U+04B7",
    "U+04B8", "U+04B9", "U+04BA", "U+04BB", "U+04BC", "U+04BD", "U+04BE",
    "U+04BF", "U+04C0", "U+04C1", "U+04C2", "U+04C3", "U+04C4", "U+04C5",
    "U+04C6", "U+04C7", "U+04C8", "U+04C9", "U+04CA", "U+04CB", "U+04CC",
    "U+04CD", "U+04CE", "U+04CF", "U+04D0", "U+04D1", "U+04D2", "U+04D3",
    "U+04D4", "U+04D5", "U+04D6", "U+04D7", "U+04D8", "U+04D9", "U+04DA",
    "U+04DB", "U+04DC", "U+04DD", "U+04DE", "U+04DF", "U+04E0", "U+04E1",
    "U+04E2", "U+04E3", "U+04E4", "U+04E5", "U+04E6", "U+04E7", "U+04E8",
    "U+04E9", "U+04EA", "U+04EB", "U+04EC", "U+04ED", "U+04EE", "U+04EF",
    "U+04F0", "U+04F1", "U+04F2", "U+04F3", "U+04F4", "U+04F5", "U+04F6",
    "U+04F7", "U+04F8", "U+04F9", "U+04FA", "U+04FB", "U+04FC", "U+04FD",
    "U+04FE", "U+04FF", "U+0500", "U+0501", "U+0502", "U+0503", "U+0504",
    "U+0505", "U+0506", "U+0507", "U+0508", "U+0509", "U+050A", "U+050B",
    "U+050C", "U+050D", "U+050E", "U+050F", "U+0510", "U+0511", "U+0512",
    "U+0513", "U+0514", "U+0515", "U+0516", "U+0517", "U+0518", "U+0519",
    "U+051A", "U+051B", "U+051C", "U+051D", "U+051E", "U+051F", "U+0520",
    "U+0521", "U+0522", "U+0523", "U+0524", "U+0525", "U+0526", "U+0527",
    "U+0528", "U+0529", "U+052A", "U+052B", "U+052C", "U+052D", "U+052E",
    "U+052F", "U+0531", "U+0532", "U+0533", "U+0534", "U+0535", "U+0536",
    "U+0537", "U+0538", "U+0539", "U+053A", "U+053B", "U+053C", "U+053D",
    "U+053E", "U+053F", "U+0540", "U+0541", "U+0542", "U+0543", "U+0544",
    "U+0545", "U+0546", "U+0547", "U+0548", "U+0549", "U+054A", "U+054B",
    "U+054C", "U+054D", "U+054E", "U+054F", "U+0550", "U+0551", "U+0552",
    "U+0553", "U+0554", "U+0555", "U+0556", "U+0560", "U+0561", "U+0562",
    "U+0563", "U+0564", "U+0565", "U+0566", "U+0567", "U+0568", "U+0569",
    "U+056A", "U+056B", "U+056C", "U+056D", "U+056E", "U+056F", "U+0570",
    "U+0571", "U+0572", "U+0573", "U+0574", "U+0575", "U+0576", "U+0577",
    "U+0578", "U+0579", "U+057A", "U+057B", "U+057C", "U+057D", "U+057E",
    "U+057F", "U+0580", "U+0581", "U+0582", "U+0583", "U+0584", "U+0585",
    "U+0586", "U+0587", "U+0588", "U+10A0", "U+10A1", "U+10A2", "U+10A3",
    "U+10A4", "U+10A5", "U+10A6", "U+10A7", "U+10A8", "U+10A9", "U+10AA",
    "U+10AB", "U+10AC", "U+10AD", "U+10AE", "U+10AF", "U+10B0", "U+10B1",
    "U+10B2", "U+10B3", "U+10B4", "U+10B5", "U+10B6", "U+10B7", "U+10B8",
    "U+10B9", "U+10BA", "U+10BB", "U+10BC", "U+10BD", "U+10BE", "U+10BF",
    "U+10C0", "U+10C1", "U+10C2", "U+10C3", "U+10C4", "U+10C5", "U+10C7",
    "U+10CD", "U+10D0", "U+10D1", "U+10D2", "U+10D3", "U+10D4", "U+10D5",
    "U+10D6", "U+10D7", "U+10D8", "U+10D9", "U+10DA", "U+10DB", "U+10DC",
    "U+10DD", "U+10DE", "U+10DF", "U+10E0", "U+10E1", "U+10E2", "U+10E3",
    "U+10E4", "U+10E5", "U+10E6", "U+10E7", "U+10E8", "U+10E9", "U+10EA",
    "U+10EB", "U+10EC", "U+10ED", "U+10EE", "U+10EF", "U+10F0", "U+10F1",
    "U+10F2", "U+10F3", "U+10F4", "U+10F5", "U+10F6", "U+10F7", "U+10F8",
    "U+10F9", "U+10FA", "U+10FD", "U+10FE", "U+10FF", "U+13A0", "U+13A1",
    "U+13A2", "U+13A3", "U+13A4", "U+13A5", "U+13A6", "U+13A7", "U+13A8",
    "U+13A9", "U+13AA", "U+13AB", "U+13AC", "U+13AD", "U+13AE", "U+13AF",
    "U+13B0", "U+13B1", "U+13B2", "U+13B3", "U+13B4", "U+13B5", "U+13B6",
    "U+13B7", "U+13B8", "U+13B9", "U+13BA", "U+13BB", "U+13BC", "U+13BD",
    "U+13BE", "U+13BF", "U+13C0", "U+13C1", "U+13C2", "U+13C3", "U+13C4",
    "U+13C5", "U+13C6", "U+13C7", "U+13C8", "U+13C9", "U+13CA", "U+13CB",
    "U+13CC", "U+13CD", "U+13CE", "U+13CF", "U+13D0", "U+13D1", "U+13D2",
    "U+13D3", "U+13D4", "U+13D5", "U+13D6", "U+13D7", "U+13D8", "U+13D9",
    "U+13DA", "U+13DB", "U+13DC", "U+13DD", "U+13DE", "U+13DF", "U+13E0",
    "U+13E1", "U+13E2", "U+13E3", "U+13E4", "U+13E5", "U+13E6", "U+13E7",
    "U+13E8", "U+13E9", "U+13EA", "U+13EB", "U+13EC", "U+13ED", "U+13EE",
    "U+13EF", "U+13F0", "U+13F1", "U+13F2", "U+13F3", "U+13F4", "U+13F5",
    "U+13F8", "U+13F9", "U+13FA", "U+13FB", "U+13FC", "U+13FD", "U+1C80",
    "U+1C81", "U+1C82", "U+1C83", "U+1C84", "U+1C85", "U+1C86", "U+1C87",
    "U+1C88", "U+1C89", "U+1C8A", "U+1C90", "U+1C91", "U+1C92", "U+1C93",
    "U+1C94", "U+1C95", "U+1C96", "U+1C97", "U+1C98", "U+1C99", "U+1C9A",
    "U+1C9B", "U+1C9C", "U+1C9D", "U+1C9E", "U+1C9F", "U+1CA0", "U+1CA1",
    "U+1CA2", "U+1CA3", "U+1CA4", "U+1CA5", "U+1CA6", "U+1CA7", "U+1CA8",
    "U+1CA9", "U+1CAA", "U+1CAB", "U+1CAC", "U+1CAD", "U+1CAE", "U+1CAF",
    "U+1CB0", "U+1CB1", "U+1CB2", "U+1CB3", "U+1CB4", "U+1CB5", "U+1CB6",
    "U+1CB7", "U+1CB8", "U+1CB9", "U+1CBA", "U+1CBD", "U+1CBE", "U+1CBF",
    "U+1D00", "U+1D01", "U+1D02", "U+1D03", "U+1D04", "U+1D05", "U+1D06",
    "U+1D07", "U+1D08", "U+1D09", "U+1D0A", "U+1D0B", "U+1D0C", "U+1D0D",
    "U+1D0E", "U+1D0F", "U+1D10", "U+1D11", "U+1D12", "U+1D13", "U+1D14",
    "U+1D15", "U+1D16", "U+1D17", "U+1D18", "U+1D19", "U+1D1A", "U+1D1B",
    "U+1D1C", "U+1D1D", "U+1D1E", "U+1D1F", "U+1D20", "U+1D21", "U+1D22",
    "U+1D23", "U+1D24", "U+1D25", "U+1D26", "U+1D27", "U+1D28", "U+1D29",
    "U+1D2A", "U+1D2B", "U+1D6B", "U+1D6C", "U+1D6D", "U+1D6E", "U+1D6F",
    "U+1D70", "U+1D71", "U+1D72", "U+1D73", "U+1D74", "U+1D75", "U+1D76",
    "U+1D77", "U+1D79", "U+1D7A", "U+1D7B", "U+1D7C", "U+1D7D", "U+1D7E",
    "U+1D7F", "U+1D80", "U+1D81", "U+1D82", "U+1D83", "U+1D84", "U+1D85",
    "U+1D86", "U+1D87", "U+1D88", "U+1D89", "U+1D8A", "U+1D8B", "U+1D8C",
    "U+1D8D", "U+1D8E", "U+1D8F", "U+1D90", "U+1D91", "U+1D92", "U+1D93",
    "U+1D94", "U+1D95", "U+1D96", "U+1D97", "U+1D98", "U+1D99", "U+1D9A",
    "U+1E00", "U+1E01", "U+1E02", "U+1E03", "U+1E04", "U+1E05", "U+1E06",
    "U+1E07", "U+1E08", "U+1E09", "U+1E0A", "U+1E0B", "U+1E0C", "U+1E0D",
    "U+1E0E", "U+1E0F", "U+1E10", "U+1E11", "U+1E12", "U+1E13", "U+1E14",
    "U+1E15", "U+1E16", "U+1E17", "U+1E18", "U+1E19", "U+1E1A", "U+1E1B",
    "U+1E1C", "U+1E1D", "U+1E1E", "U+1E1F", "U+1E20", "U+1E21", "U+1E22",
    "U+1E23", "U+1E24", "U+1E25", "U+1E26", "U+1E27", "U+1E28", "U+1E29",
    "U+1E2A", "U+1E2B", "U+1E2C", "U+1E2D", "U+1E2E", "U+1E2F", "U+1E30",
    "U+1E31", "U+1E32", "U+1E33", "U+1E34", "U+1E35", "U+1E36", "U+1E37",
    "U+1E38", "U+1E39", "U+1E3A", "U+1E3B", "U+1E3C", "U+1E3D", "U+1E3E",
    "U+1E3F", "U+1E40", "U+1E41", "U+1E42", "U+1E43", "U+1E44", "U+1E45",
    "U+1E46", "U+1E47", "U+1E48", "U+1E49", "U+1E4A", "U+1E4B", "U+1E4C",
    "U+1E4D", "U+1E4E", "U+1E4F", "U+1E50", "U+1E51", "U+1E52", "U+1E53",
    "U+1E54", "U+1E55", "U+1E56", "U+1E57", "U+1E58", "U+1E59", "U+1E5A",
    "U+1E5B", "U+1E5C", "U+1E5D", "U+1E5E", "U+1E5F", "U+1E60", "U+1E61",
    "U+1E62", "U+1E63", "U+1E64", "U+1E65", "U+1E66", "U+1E67", "U+1E68",
    "U+1E69", "U+1E6A", "U+1E6B", "U+1E6C", "U+1E6D", "U+1E6E", "U+1E6F",
    "U+1E70", "U+1E71", "U+1E72", "U+1E73", "U+1E74", "U+1E75", "U+1E76",
    "U+1E77", "U+1E78", "U+1E79", "U+1E7A", "U+1E7B", "U+1E7C", "U+1E7D",
    "U+1E7E", "U+1E7F", "U+1E80", "U+1E81", "U+1E82", "U+1E83", "U+1E84",
    "U+1E85", "U+1E86", "U+1E87", "U+1E88", "U+1E89", "U+1E8A", "U+1E8B",
    "U+1E8C", "U+1E8D", "U+1E8E", "U+1E8F", "U+1E90", "U+1E91", "U+1E92",
    "U+1E93", "U+1E94", "U+1E95", "U+1E96", "U+1E97", "U+1E98", "U+1E99",
    "U+1E9A", "U+1E9B", "U+1E9C", "U+1E9D", "U+1E9E", "U+1E9F", "U+1EA0",
    "U+1EA1", "U+1EA2", "U+1EA3", "U+1EA4", "U+1EA5", "U+1EA6", "U+1EA7",
    "U+1EA8", "U+1EA9", "U+1EAA", "U+1EAB", "U+1EAC", "U+1EAD", "U+1EAE",
    "U+1EAF", "U+1EB0", "U+1EB1", "U+1EB2", "U+1EB3", "U+1EB4", "U+1EB5",
    "U+1EB6", "U+1EB7", "U+1EB8", "U+1EB9", "U+1EBA", "U+1EBB", "U+1EBC",
    "U+1EBD", "U+1EBE", "U+1EBF", "U+1EC0", "U+1EC1", "U+1EC2", "U+1EC3",
    "U+1EC4", "U+1EC5", "U+1EC6", "U+1EC7", "U+1EC8", "U+1EC9", "U+1ECA",
    "U+1ECB", "U+1ECC", "U+1ECD", "U+1ECE", "U+1ECF", "U+1ED0", "U+1ED1",
    "U+1ED2", "U+1ED3", "U+1ED4", "U+1ED5", "U+1ED6", "U+1ED7", "U+1ED8",
    "U+1ED9", "U+1EDA", "U+1EDB", "U+1EDC", "U+1EDD", "U+1EDE", "U+1EDF",
    "U+1EE0", "U+1EE1", "U+1EE2", "U+1EE3", "U+1EE4", "U+1EE5", "U+1EE6",
    "U+1EE7", "U+1EE8", "U+1EE9", "U+1EEA", "U+1EEB", "U+1EEC", "U+1EED",
    "U+1EEE", "U+1EEF", "U+1EF0", "U+1EF1", "U+1EF2", "U+1EF3", "U+1EF4",
    "U+1EF5", "U+1EF6", "U+1EF7", "U+1EF8", "U+1EF9", "U+1EFA", "U+1EFB",
    "U+1EFC", "U+1EFD", "U+1EFE", "U+1EFF", "U+1F00", "U+1F01", "U+1F02",
    "U+1F03", "U+1F04", "U+1F05", "U+1F06", "U+1F07", "U+1F08", "U+1F09",
    "U+1F0A", "U+1F0B", "U+1F0C", "U+1F0D", "U+1F0E", "U+1F0F", "U+1F10",
    "U+1F11", "U+1F12", "U+1F13", "U+1F14", "U+1F15", "U+1F18", "U+1F19",
    "U+1F1A", "U+1F1B", "U+1F1C", "U+1F1D", "U+1F20", "U+1F21", "U+1F22",
    "U+1F23", "U+1F24", "U+1F25", "U+1F26", "U+1F27", "U+1F28", "U+1F29",
    "U+1F2A", "U+1F2B", "U+1F2C", "U+1F2D", "U+1F2E", "U+1F2F", "U+1F30",
    "U+1F31", "U+1F32", "U+1F33", "U+1F34", "U+1F35", "U+1F36", "U+1F37",
    "U+1F38", "U+1F39", "U+1F3A", "U+1F3B", "U+1F3C", "U+1F3D", "U+1F3E",
    "U+1F3F", "U+1F40", "U+1F41", "U+1F42", "U+1F43", "U+1F44", "U+1F45",
    "U+1F48", "U+1F49", "U+1F4A", "U+1F4B", "U+1F4C", "U+1F4D", "U+1F50",
    "U+1F51", "U+1F52", "U+1F53", "U+1F54", "U+1F55", "U+1F56", "U+1F57",
    "U+1F59", "U+1F5B", "U+1F5D", "U+1F5F", "U+1F60", "U+1F61", "U+1F62",
    "U+1F63", "U+1F64", "U+1F65", "U+1F66", "U+1F67", "U+1F68", "U+1F69",
    "U+1F6A", "U+1F6B", "U+1F6C", "U+1F6D", "U+1F6E", "U+1F6F", "U+1F70",
    "U+1F71", "U+1F72", "U+1F73", "U+1F74", "U+1F75", "U+1F76", "U+1F77",
    "U+1F78", "U+1F79", "U+1F7A", "U+1F7B", "U+1F7C", "U+1F7D", "U+1F80",
    "U+1F81", "U+1F82", "U+1F83", "U+1F84", "U+1F85", "U+1F86", "U+1F87",
    "U+1F88", "U+1F89", "U+1F8A", "U+1F8B", "U+1F8C", "U+1F8D", "U+1F8E",
    "U+1F8F", "U+1F90", "U+1F91", "U+1F92", "U+1F93", "U+1F94", "U+1F95",
    "U+1F96", "U+1F97", "U+1F98", "U+1F99", "U+1F9A", "U+1F9B", "U+1F9C",
    "U+1F9D", "U+1F9E", "U+1F9F", "U+1FA0", "U+1FA1", "U+1FA2", "U+1FA3",
    "U+1FA4", "U+1FA5", "U+1FA6", "U+1FA7", "U+1FA8", "U+1FA9", "U+1FAA",
    "U+1FAB", "U+1FAC", "U+1FAD", "U+1FAE", "U+1FAF", "U+1FB0", "U+1FB1",
    "U+1FB2", "U+1FB3", "U+1FB4", "U+1FB6", "U+1FB7", "U+1FB8", "U+1FB9",
    "U+1FBA", "U+1FBB", "U+1FBC", "U+1FBE", "U+1FC2", "U+1FC3", "U+1FC4",
    "U+1FC6", "U+1FC7", "U+1FC8", "U+1FC9", "U+1FCA", "U+1FCB", "U+1FCC",
    "U+1FD0", "U+1FD1", "U+1FD2", "U+1FD3", "U+1FD6", "U+1FD7", "U+1FD8",
    "U+1FD9", "U+1FDA", "U+1FDB", "U+1FE0", "U+1FE1", "U+1FE2", "U+1FE3",
    "U+1FE4", "U+1FE5", "U+1FE6", "U+1FE7", "U+1FE8", "U+1FE9", "U+1FEA",
    "U+1FEB", "U+1FEC", "U+1FF2", "U+1FF3", "U+1FF4", "U+1FF6", "U+1FF7",
    "U+1FF8", "U+1FF9", "U+1FFA", "U+1FFB", "U+1FFC", "U+2102", "U+2107",
    "U+210A", "U+210B", "U+210C", "U+210D", "U+210E", "U+210F", "U+2110",
    "U+2111", "U+2112", "U+2113", "U+2115", "U+2119", "U+211A", "U+211B",
    "U+211C", "U+211D", "U+2124", "U+2126", "U+2128", "U+212A", "U+212B",
    "U+212C", "U+212D", "U+212F", "U+2130", "U+2131", "U+2132", "U+2133",
    "U+2134", "U+2139", "U+213C", "U+213D", "U+213E", "U+213F", "U+2145",
    "U+2146", "U+2147", "U+2148", "U+2149", "U+214E", "U+2160", "U+2161",
    "U+2162", "U+2163", "U+2164", "U+2165", "U+2166", "U+2167", "U+2168",
    "U+2169", "U+216A", "U+216B", "U+216C", "U+216D", "U+216E", "U+216F",
    "U+2170", "U+2171", "U+2172", "U+2173", "U+2174", "U+2175", "U+2176",
    "U+2177", "U+2178", "U+2179", "U+217A", "U+217B", "U+217C", "U+217D",
    "U+217E", "U+217F", "U+2183", "U+2184", "U+24B6", "U+24B7", "U+24B8",
    "U+24B9", "U+24BA", "U+24BB", "U+24BC", "U+24BD", "U+24BE", "U+24BF",
    "U+24C0", "U+24C1", "U+24C2", "U+24C3", "U+24C4", "U+24C5", "U+24C6",
    "U+24C7", "U+24C8", "U+24C9", "U+24CA", "U+24CB", "U+24CC", "U+24CD",
    "U+24CE", "U+24CF", "U+24D0", "U+24D1", "U+24D2", "U+24D3", "U+24D4",
    "U+24D5", "U+24D6", "U+24D7", "U+24D8", "U+24D9", "U+24DA", "U+24DB",
    "U+24DC", "U+24DD", "U+24DE", "U+24DF", "U+24E0", "U+24E1", "U+24E2",
    "U+24E3", "U+24E4", "U+24E5", "U+24E6", "U+24E7", "U+24E8", "U+24E9",
    "U+2C00", "U+2C01", "U+2C02", "U+2C03", "U+2C04", "U+2C05", "U+2C06",
    "U+2C07", "U+2C08", "U+2C09", "U+2C0A", "U+2C0B", "U+2C0C", "U+2C0D",
    "U+2C0E", "U+2C0F", "U+2C10", "U+2C11", "U+2C12", "U+2C13", "U+2C14",
    "U+2C15", "U+2C16", "U+2C17", "U+2C18", "U+2C19", "U+2C1A", "U+2C1B",
    "U+2C1C", "U+2C1D", "U+2C1E", "U+2C1F", "U+2C20", "U+2C21", "U+2C22",
    "U+2C23", "U+2C24", "U+2C25", "U+2C26", "U+2C27", "U+2C28", "U+2C29",
    "U+2C2A", "U+2C2B", "U+2C2C", "U+2C2D", "U+2C2E", "U+2C2F", "U+2C30",
    "U+2C31", "U+2C32", "U+2C33", "U+2C34", "U+2C35", "U+2C36", "U+2C37",
    "U+2C38", "U+2C39", "U+2C3A", "U+2C3B", "U+2C3C", "U+2C3D", "U+2C3E",
    "U+2C3F", "U+2C40", "U+2C41", "U+2C42", "U+2C43", "U+2C44", "U+2C45",
    "U+2C46", "U+2C47", "U+2C48", "U+2C49", "U+2C4A", "U+2C4B", "U+2C4C",
    "U+2C4D", "U+2C4E", "U+2C4F", "U+2C50", "U+2C51", "U+2C52", "U+2C53",
    "U+2C54", "U+2C55", "U+2C56", "U+2C57", "U+2C58", "U+2C59", "U+2C5A",
    "U+2C5B", "U+2C5C", "U+2C5D", "U+2C5E", "U+2C5F", "U+2C60", "U+2C61",
    "U+2C62", "U+2C63", "U+2C64", "U+2C65", "U+2C66", "U+2C67", "U+2C68",
    "U+2C69", "U+2C6A", "U+2C6B", "U+2C6C", "U+2C6D", "U+2C6E", "U+2C6F",
    "U+2C70", "U+2C71", "U+2C72", "U+2C73", "U+2C74", "U+2C75", "U+2C76",
    "U+2C77", "U+2C78", "U+2C79", "U+2C7A", "U+2C7B", "U+2C7E", "U+2C7F",
    "U+2C80", "U+2C81", "U+2C82", "U+2C83", "U+2C84", "U+2C85", "U+2C86",
    "U+2C87", "U+2C88", "U+2C89", "U+2C8A", "U+2C8B", "U+2C8C", "U+2C8D",
    "U+2C8E", "U+2C8F", "U+2C90", "U+2C91", "U+2C92", "U+2C93", "U+2C94",
    "U+2C95", "U+2C96", "U+2C97", "U+2C98", "U+2C99", "U+2C9A", "U+2C9B",
    "U+2C9C", "U+2C9D", "U+2C9E", "U+2C9F", "U+2CA0", "U+2CA1", "U+2CA2",
    "U+2CA3", "U+2CA4", "U+2CA5", "U+2CA6", "U+2CA7", "U+2CA8", "U+2CA9",
    "U+2CAA", "U+2CAB", "U+2CAC", "U+2CAD", "U+2CAE", "U+2CAF", "U+2CB0",
    "U+2CB1", "U+2CB2", "U+2CB3", "U+2CB4", "U+2CB5", "U+2CB6", "U+2CB7",
    "U+2CB8", "U+2CB9", "U+2CBA", "U+2CBB", "U+2CBC", "U+2CBD", "U+2CBE",
    "U+2CBF", "U+2CC0", "U+2CC1", "U+2CC2", "U+2CC3", "U+2CC4", "U+2CC5",
    "U+2CC6", "U+2CC7", "U+2CC8", "U+2CC9", "U+2CCA", "U+2CCB", "U+2CCC",
    "U+2CCD", "U+2CCE", "U+2CCF", "U+2CD0", "U+2CD1", "U+2CD2", "U+2CD3",
    "U+2CD4", "U+2CD5", "U+2CD6", "U+2CD7", "U+2CD8", "U+2CD9", "U+2CDA",
    "U+2CDB", "U+2CDC", "U+2CDD", "U+2CDE", "U+2CDF", "U+2CE0", "U+2CE1",
    "U+2CE2", "U+2CE3", "U+2CE4", "U+2CEB", "U+2CEC", "U+2CED", "U+2CEE",
    "U+2CF2", "U+2CF3", "U+2D00", "U+2D01", "U+2D02", "U+2D03", "U+2D04",
    "U+2D05", "U+2D06", "U+2D07", "U+2D08", "U+2D09", "U+2D0A", "U+2D0B",
    "U+2D0C", "U+2D0D", "U+2D0E", "U+2D0F", "U+2D10", "U+2D11", "U+2D12",
    "U+2D13", "U+2D14", "U+2D15", "U+2D16", "U+2D17", "U+2D18", "U+2D19",
    "U+2D1A", "U+2D1B", "U+2D1C", "U+2D1D", "U+2D1E", "U+2D1F", "U+2D20",
    "U+2D21", "U+2D22", "U+2D23", "U+2D24", "U+2D25", "U+2D27", "U+2D2D",
    "U+A640", "U+A641", "U+A642", "U+A643", "U+A644", "U+A645", "U+A646",
    "U+A647", "U+A648", "U+A649", "U+A64A", "U+A64B", "U+A64C", "U+A64D",
    "U+A64E", "U+A64F", "U+A650", "U+A651", "U+A652", "U+A653", "U+A654",
    "U+A655", "U+A656", "U+A657", "U+A658", "U+A659", "U+A65A", "U+A65B",
    "U+A65C", "U+A65D", "U+A65E", "U+A65F", "U+A660", "U+A661", "U+A662",
    "U+A663", "U+A664", "U+A665", "U+A666", "U+A667", "U+A668", "U+A669",
    "U+A66A", "U+A66B", "U+A66C", "U+A66D", "U+A680", "U+A681", "U+A682",
    "U+A683", "U+A684", "U+A685", "U+A686", "U+A687", "U+A688", "U+A689",
    "U+A68A", "U+A68B", "U+A68C", "U+A68D", "U+A68E", "U+A68F", "U+A690",
    "U+A691", "U+A692", "U+A693", "U+A694", "U+A695", "U+A696", "U+A697",
    "U+A698", "U+A699", "U+A69A", "U+A69B", "U+A722", "U+A723", "U+A724",
    "U+A725", "U+A726", "U+A727", "U+A728", "U+A729", "U+A72A", "U+A72B",
    "U+A72C", "U+A72D", "U+A72E", "U+A72F", "U+A730", "U+A731", "U+A732",
    "U+A733", "U+A734", "U+A735", "U+A736", "U+A737", "U+A738", "U+A739",
    "U+A73A", "U+A73B", "U+A73C", "U+A73D", "U+A73E", "U+A73F", "U+A740",
    "U+A741", "U+A742", "U+A743", "U+A744", "U+A745", "U+A746", "U+A747",
    "U+A748", "U+A749", "U+A74A", "U+A74B", "U+A74C", "U+A74D", "U+A74E",
    "U+A74F", "U+A750", "U+A751", "U+A752", "U+A753", "U+A754", "U+A755",
    "U+A756", "U+A757", "U+A758", "U+A759", "U+A75A", "U+A75B", "U+A75C",
    "U+A75D", "U+A75E", "U+A75F", "U+A760", "U+A761", "U+A762", "U+A763",
    "U+A764", "U+A765", "U+A766", "U+A767", "U+A768", "U+A769", "U+A76A",
    "U+A76B", "U+A76C", "U+A76D", "U+A76E", "U+A76F", "U+A771", "U+A772",
    "U+A773", "U+A774", "U+A775", "U+A776", "U+A777", "U+A778", "U+A779",
    "U+A77A", "U+A77B", "U+A77C", "U+A77D", "U+A77E", "U+A77F", "U+A780",
    "U+A781", "U+A782", "U+A783", "U+A784", "U+A785", "U+A786", "U+A787",
    "U+A78B", "U+A78C", "U+A78D", "U+A78E", "U+A790", "U+A791", "U+A792",
    "U+A793", "U+A794", "U+A795", "U+A796", "U+A797", "U+A798", "U+A799",
    "U+A79A", "U+A79B", "U+A79C", "U+A79D", "U+A79E", "U+A79F", "U+A7A0",
    "U+A7A1", "U+A7A2", "U+A7A3", "U+A7A4", "U+A7A5", "U+A7A6", "U+A7A7",
    "U+A7A8", "U+A7A9", "U+A7AA", "U+A7AB", "U+A7AC", "U+A7AD", "U+A7AE",
    "U+A7AF", "U+A7B0", "U+A7B1", "U+A7B2", "U+A7B3", "U+A7B4", "U+A7B5",
    "U+A7B6", "U+A7B7", "U+A7B8", "U+A7B9", "U+A7BA", "U+A7BB", "U+A7BC",
    "U+A7BD", "U+A7BE", "U+A7BF", "U+A7C0", "U+A7C1", "U+A7C2", "U+A7C3",
    "U+A7C4", "U+A7C5", "U+A7C6", "U+A7C7", "U+A7C8", "U+A7C9", "U+A7CA",
    "U+A7CB", "U+A7CC", "U+A7CD", "U+A7CE", "U+A7CF", "U+A7D0", "U+A7D1",
    "U+A7D2", "U+A7D3", "U+A7D4", "U+A7D5", "U+A7D6", "U+A7D7", "U+A7D8",
    "U+A7D9", "U+A7DA", "U+A7DB", "U+A7DC", "U+A7F5", "U+A7F6", "U+A7FA",
    "U+AB30", "U+AB31", "U+AB32", "U+AB33", "U+AB34", "U+AB35", "U+AB36",
    "U+AB37", "U+AB38", "U+AB39", "U+AB3A", "U+AB3B", "U+AB3C", "U+AB3D",
    "U+AB3E", "U+AB3F", "U+AB40", "U+AB41", "U+AB42", "U+AB43", "U+AB44",
    "U+AB45", "U+AB46", "U+AB47", "U+AB48", "U+AB49", "U+AB4A", "U+AB4B",
    "U+AB4C", "U+AB4D", "U+AB4E", "U+AB4F", "U+AB50", "U+AB51", "U+AB52",
    "U+AB53", "U+AB54", "U+AB55", "U+AB56", "U+AB57", "U+AB58", "U+AB59",
    "U+AB5A", "U+AB60", "U+AB61", "U+AB62", "U+AB63", "U+AB64", "U+AB65",
    "U+AB66", "U+AB67", "U+AB68", "U+AB70", "U+AB71", "U+AB72", "U+AB73",
    "U+AB74", "U+AB75", "U+AB76", "U+AB77", "U+AB78", "U+AB79", "U+AB7A",
    "U+AB7B", "U+AB7C", "U+AB7D", "U+AB7E", "U+AB7F", "U+AB80", "U+AB81",
    "U+AB82", "U+AB83", "U+AB84", "U+AB85", "U+AB86", "U+AB87", "U+AB88",
    "U+AB89", "U+AB8A", "U+AB8B", "U+AB8C", "U+AB8D", "U+AB8E", "U+AB8F",
    "U+AB90", "U+AB91", "U+AB92", "U+AB93", "U+AB94", "U+AB95", "U+AB96",
    "U+AB97", "U+AB98", "U+AB99", "U+AB9A", "U+AB9B", "U+AB9C", "U+AB9D",
    "U+AB9E", "U+AB9F", "U+ABA0", "U+ABA1", "U+ABA2", "U+ABA3", "U+ABA4",
    "U+ABA5", "U+ABA6", "U+ABA7", "U+ABA8", "U+ABA9", "U+ABAA", "U+ABAB",
    "U+ABAC", "U+ABAD", "U+ABAE", "U+ABAF", "U+ABB0", "U+ABB1", "U+ABB2",
    "U+ABB3", "U+ABB4", "U+ABB5", "U+ABB6", "U+ABB7", "U+ABB8", "U+ABB9",
    "U+ABBA", "U+ABBB", "U+ABBC", "U+ABBD", "U+ABBE", "U+ABBF", "U+FB00",
    "U+FB01", "U+FB02", "U+FB03", "U+FB04", "U+FB05", "U+FB06", "U+FB13",
    "U+FB14", "U+FB15", "U+FB16", "U+FB17", "U+FF21", "U+FF22", "U+FF23",
    "U+FF24", "U+FF25", "U+FF26", "U+FF27", "U+FF28", "U+FF29", "U+FF2A",
    "U+FF2B", "U+FF2C", "U+FF2D", "U+FF2E", "U+FF2F", "U+FF30", "U+FF31",
    "U+FF32", "U+FF33", "U+FF34", "U+FF35", "U+FF36", "U+FF37", "U+FF38",
    "U+FF39", "U+FF3A", "U+FF41", "U+FF42", "U+FF43", "U+FF44", "U+FF45",
    "U+FF46", "U+FF47", "U+FF48", "U+FF49", "U+FF4A", "U+FF4B", "U+FF4C",
    "U+FF4D", "U+FF4E", "U+FF4F", "U+FF50", "U+FF51", "U+FF52", "U+FF53",
    "U+FF54", "U+FF55", "U+FF56", "U+FF57", "U+FF58", "U+FF59", "U+FF5A"
  }

\* the same for the supplementary planes, as <<high, low>> surrogates
CasedAstral ==
  ({"U+D801"} \X {
      "U+DC00", "U+DC01", "U+DC02", "U+DC03", "U+DC04", "U+DC05", "U+DC06",
      "U+DC07", "U+DC08", "U+DC09", "U+DC0A", "U+DC0B", "U+DC0C", "U+DC0D",
      "U+DC0E", "U+DC0F", "U+DC10", "U+DC11", "U+DC12", "U+DC13", "U+DC14",
      "U+DC15", "U+DC16", "U+DC17", "U+DC18", "U+DC19", "U+DC1A", "U+DC1B",
      "U+DC1C", "U+DC1D", "U+DC1E", "U+DC1F", "U+DC20", "U+DC21", "U+DC22",
      "U+DC23", "U+DC24", "U+DC25", "U+DC26", "U+DC27", "U+DC28", "U+DC29",
      "U+DC2A", "U+DC2B", "U+DC2C", "U+DC2D", "U+DC2E", "U+DC2F", "U+DC30",
      "U+DC31", "U+DC32", "U+DC33", "U+DC34", "U+DC35", "U+DC36", "U+DC37",
      "U+DC38", "U+DC39", "U+DC3A", "U+DC3B", "U+DC3C", "U+DC3D", "U+DC3E",
      "U+DC3F", "U+DC40", "U+DC41", "U+DC42", "U+DC43", "U+DC44", "U+DC45",
      "U+DC46", "U+DC47", "U+DC48", "U+DC49", "U+DC4A", "U+DC4B", "U+DC4C",
      "U+DC4D", "U+DC4E", "U+DC4F", "U+DCB0", "U+DCB1", "U+DCB2", "U+DCB3",
      "U+DCB4", "U+DCB5", "U+DCB6", "U+DCB7", "U+DCB8", "U+DCB9", "U+DCBA",
      "U+DCBB", "U+DCBC", "U+DCBD", "U+DCBE", "U+DCBF", "U+DCC0", "U+DCC1",
      "U+DCC2", "U+DCC3", "U+DCC4", "U+DCC5", "U+DCC6", "U+DCC7", "U+DCC8",
      "U+DCC9", "U+DCCA", "U+DCCB", "U+DCCC", "U+DCCD", "U+DCCE", "U+DCCF",
      "U+DCD0", "U+DCD1", "U+DCD2", "U+DCD3", "U+DCD8", "U+DCD9", "U+DCDA",
      "U+DCDB", "U+DCDC", "U+DCDD", "U+DCDE", "U+DCDF", "U+DCE0", "U+DCE1",
      "U+DCE2", "U+DCE3", "U+DCE4", "U+DCE5", "U+DCE6", "U+DCE7", "U+DCE8",
      "U+DCE9", "U+DCEA", "U+DCEB", "U+DCEC", "U+DCED", "U+DCEE", "U+DCEF",
      "U+DCF0", "U+DCF1", "U+DCF2", "U+DCF3", "U+DCF4", "U+DCF5", "U+DCF6",
      "U+DCF7", "U+DCF8", "U+DCF9", "U+DCFA", "U+DCFB", "U+DD70", "U+DD71",
      "U+DD72", "U+DD73", "U+DD74", "U+DD75", "U+DD76", "U+DD77", "U+DD78",
      "U+DD79", "U+DD7A", "U+DD7C", "U+DD7D", "U+DD7E", "U+DD7F", "U+DD80",
      "U+DD81", "U+DD82", "U+DD83", "U+DD84", "U+DD85", "U+DD86", "U+DD87",
      "U+DD88", "U+DD89", "U+DD8A", "U+DD8C", "U+DD8D", "U+DD8E", "U+DD8F",
      "U+DD90", "U+DD91", "U+DD92", "U+DD94", "U+DD95", "U+DD97", "U+DD98",
      "U+DD99", "U+DD9A", "U+DD9B", "U+DD9C", "U+DD9D", "U+DD9E", "U+DD9F",
      "U+DDA0", "U+DDA1", "U+DDA3", "U+DDA4", "U+DDA5", "U+DDA6", "U+DDA7",
      "U+DDA8", "U+DDA9", "U+DDAA", "U+DDAB", "U+DDAC", "U+DDAD", "U+DDAE",
      "U+DDAF", "U+DDB0", "U+DDB1", "U+DDB3", "U+DDB4", "U+DDB5", "U+DDB6",
      "U+DDB7", "U+DDB8", "U+DDB9", "U+DDBB", "U+DDBC" })
  \cup
  ({"U+D803"} \X {
      "U+DC80", "U+DC81", "U+DC82", "U+DC83", "U+DC84", "U+DC85", "U+DC86",
      "U+DC87", "U+DC88", "U+DC89", "U+DC8A", "U+DC8B", "U+DC8C", "U+DC8D",
      "U+DC8E", "U+DC8F", "U+DC90", "U+DC91", "U+DC92", "U+DC93", "U+DC94",
      "U+DC95", "U+DC96", "U+DC97", "U+DC98", "U+DC99", "U+DC9A", "U+DC9B",
      "U+DC9C", "U+DC9D", "U+DC9E", "U+DC9F", "U+DCA0", "U+DCA1", "U+DCA2",
      "U+DCA3", "U+DCA4", "U+DCA5", "U+DCA6", "U+DCA7", "U+DCA8", "U+DCA9",
      "U+DCAA", "U+DCAB", "U+DCAC", "U+DCAD", "U+DCAE", "U+DCAF", "U+DCB0",
      "U+DCB1", "U+DCB2", "U+DCC0", "U+DCC1", "U+DCC2", "U+DCC3", "U+DCC4",
      "U+DCC5", "U+DCC6", "U+DCC7", "U+DCC8", "U+DCC9", "U+DCCA", "U+DCCB",
      "U+DCCC", "U+DCCD", "U+DCCE", "U+DCCF", "U+DCD0", "U+DCD1", "U+DCD2",
      "U+DCD3", "U+DCD4", "U+DCD5", "U+DCD6", "U+DCD7", "U+DCD8", "U+DCD9",
      "U+DCDA", "U+DCDB", "U+DCDC", "U+DCDD", "U+DCDE", "U+DCDF", "U+DCE0",
      "U+DCE1", "U+DCE2", "U+DCE3", "U+DCE4", "U+DCE5", "U+DCE6", "U+DCE7",
      "U+DCE8", "U+DCE9", "U+DCEA", "U+DCEB", "U+DCEC", "U+DCED", "U+DCEE",
      "U+DCEF", "U+DCF0", "U+DCF1", "U+DCF2", "U+DD50", "U+DD51", "U+DD52",
      "U+DD53", "U+DD54", "U+DD55", "U+DD56", "U+DD57", "U+DD58", "U+DD59",
      "U+DD5A", "U+DD5B", "U+DD5C", "U+DD5D", "U+DD5E", "U+DD5F", "U+DD60",
      "U+DD61", "U+DD62", "U+DD63", "U+DD64", "U+DD65", "U+DD70", "U+DD71",
      "U+DD72", "U+DD73", "U+DD74", "U+DD75", "U+DD76", "U+DD77", "U+DD78",
      "U+DD79", "U+DD7A", "U+DD7B", "U+DD7C", "U+DD7D", "U+DD7E", "U+DD7F",
      "U+DD80", "U+DD81", "U+DD82", "U+DD83", "U+DD84", "U+DD85" })
  \cup
  ({"U+D806"} \X {
      "U+DCA0", "U+DCA1", "U+DCA2", "U+DCA3", "U+DCA4", "U+DCA5", "U+DCA6",
      "U+DCA7", "U+DCA8", "U+DCA9", "U+DCAA", "U+DCAB", "U+DCAC", "U+DCAD",
      "U+DCAE", "U+DCAF", "U+DCB0", "U+DCB1", "U+DCB2", "U+DCB3", "U+DCB4",
      "U+DCB5", "U+DCB6", "U+DCB7", "U+DCB8", "U+DCB9", "U+DCBA", "U+DCBB",
      "U+DCBC", "U+DCBD", "U+DCBE", "U+DCBF", "U+DCC0", "U+DCC1", "U+DCC2",
      "U+DCC3", "U+DCC4", "U+DCC5", "U+DCC6", "U+DCC7", "U+DCC8", "U+DCC9",
      "U+DCCA", "U+DCCB", "U+DCCC", "U+DCCD", "U+DCCE", "U+DCCF", "U+DCD0",
      "U+DCD1", "U+DCD2", "U+DCD3", "U+DCD4", "U+DCD5", "U+DCD6", "U+DCD7",
      "U+DCD8", "U+DCD9", "U+DCDA", "U+DCDB", "U+DCDC", "U+DCDD", "U+DCDE",
      "U+DCDF" })
  \cup
  ({"U+D81B"} \X {
      "U+DE40", "U+DE41", "U+DE42", "U+DE43", "U+DE44", "U+DE45", "U+DE46",
      "U+DE47", "U+DE48", "U+DE49", "U+DE4A", "U+DE4B", "U+DE4C", "U+DE4D",
      "U+DE4E", "U+DE4F", "U+DE50", "U+DE51", "U+DE52", "U+DE53", "U+DE54",
      "U+DE55", "U+DE56", "U+DE57", "U+DE58", "U+DE59", "U+DE5A", "U+DE5B",
      "U+DE5C", "U+DE5D", "U+DE5E", "U+DE5F", "U+DE60", "U+DE61", "U+DE62",
      "U+DE63", "U+DE64", "U+DE65", "U+DE66", "U+DE67", "U+DE68", "U+DE69",
      "U+DE6A", "U+DE6B", "U+DE6C", "U+DE6D", "U+DE6E", "U+DE6F", "U+DE70",
      "U+DE71", "U+DE72", "U+DE73", "U+DE74", "U+DE75", "U+DE76", "U+DE77",
      "U+DE78", "U+DE79", "U+DE7A", "U+DE7B", "U+DE7C", "U+DE7D", "U+DE7E",
      "U+DE7F", "U+DEA0", "U+DEA1", "U+DEA2", "U+DEA3", "U+DEA4", "U+DEA5",
      "U+DEA6", "U+DEA7", "U+DEA8", "U+DEA9", "U+DEAA", "U+DEAB", "U+DEAC",
      "U+DEAD", "U+DEAE", "U+DEAF", "U+DEB0", "U+DEB1", "U+DEB2", "U+DEB3",
      "U+DEB4", "U+DEB5", "U+DEB6", "U+DEB7", "U+DEB8", "U+DEBB", "U+DEBC",
      "U+DEBD", "U+DEBE", "U+DEBF", "U+DEC0", "U+DEC1", "U+DEC2", "U+DEC3",
      "U+DEC4", "U+DEC5", "U+DEC6", "U+DEC7", "U+DEC8", "U+DEC9", "U+DECA",
      "U+DECB", "U+DECC", "U+DECD", "U+DECE", "U+DECF", "U+DED0", "U+DED1",
      "U+DED2", "U+DED3" })
  \cup
  ({"U+D835"} \X {
      "U+DC00", "U+DC01", "U+DC02", "U+DC03", "U+DC04", "U+DC05", "U+DC06",
      "U+DC07", "U+DC08", "U+DC09", "U+DC0A", "U+DC0B", "U+DC0C", "U+DC0D",
      "U+DC0E", "U+DC0F", "U+DC10", "U+DC11", "U+DC12", "U+DC13", "U+DC14",
      "U+DC15", "U+DC16", "U+DC17", "U+DC18", "U+DC19", "U+DC1A", "U+DC1B",
      "U+DC1C", "U+DC1D", "U+DC1E", "U+DC1F", "U+DC20", "U+DC21", "U+DC22",
      "U+DC23", "U+DC24", "U+DC25", "U+DC26", "U+DC27", "U+DC28", "U+DC29",
      "U+DC2A", "U+DC2B", "U+DC2C", "U+DC2D", "U+DC2E", "U+DC2F", "U+DC30",
      "U+DC31", "U+DC32", "U+DC33", "U+DC34", "U+DC35", "U+DC36", "U+DC37",
      "U+DC38", "U+DC39", "U+DC3A", "U+DC3B", "U+DC3C", "U+DC3D", "U+DC3E",
      "U+DC3F", "U+DC40", "U+DC41", "U+DC42", "U+DC43", "U+DC44", "U+DC45",
      "U+DC46", "U+DC47", "U+DC48", "U+DC49", "U+DC4A", "U+DC4B", "U+DC4C",
      "U+DC4D", "U+DC4E", "U+DC4F", "U+DC50", "U+DC51", "U+DC52", "U+DC53",
      "U+DC54", "U+DC56", "U+DC57", "U+DC58", "U+DC59", "U+DC5A", "U+DC5B",
      "U+DC5C", "U+DC5D", "U+DC5E", "U+DC5F", "U+DC60", "U+DC61", "U+DC62",
      "U+DC63", "U+DC64", "U+DC65", "U+DC66", "U+DC67", "U+DC68", "U+DC69",
      "U+DC6A", "U+DC6B", "U+DC6C", "U+DC6D", "U+DC6E", "U+DC6F", "U+DC70",
      "U+DC71", "U+DC72", "U+DC73", "U+DC74", "U+DC75", "U+DC76", "U+DC77",
      "U+DC78", "U+DC79", "U+DC7A", "U+DC7B", "U+DC7C", "U+DC7D", "U+DC7E",
      "U+DC7F", "U+DC80", "U+DC81", "U+DC82", "U+DC83", "U+DC84", "U+DC85",
      "U+DC86", "U+DC87", "U+DC88", "U+DC89", "U+DC8A", "U+DC8B", "U+DC8C",
      "U+DC8D", "U+DC8E", "U+DC8F", "U+DC90", "U+DC91", "U+DC92", "U+DC93",
      "U+DC94", "U+DC95", "U+DC96", "U+DC97", "U+DC98", "U+DC99", "U+DC9A",
      "U+DC9B", "U+DC9C", "U+DC9E", "U+DC9F", "U+DCA2", "U+DCA5", "U+DCA6",
      "U+DCA9", "U+DCAA", "U+DCAB", "U+DCAC", "U+DCAE", "U+DCAF", "U+DCB0",
      "U+DCB1", "U+DCB2", "U+DCB3", "U+DCB4", "U+DCB5", "U+DCB6", "U+DCB7",
      "U+DCB8", "U+DCB9", "U+DCBB", "U+DCBD", "U+DCBE", "U+DCBF", "U+DCC0",
      "U+DCC1", "U+DCC2", "U+DCC3", "U+DCC5", "U+DCC6", "U+DCC7", "U+DCC8",
      "U+DCC9", "U+DCCA", "U+DCCB", "U+DCCC", "U+DCCD", "U+DCCE", "U+DCCF",
      "U+DCD0", "U+DCD1", "U+DCD2", "U+DCD3", "U+DCD4", "U+DCD5", "U+DCD6",
      "U+DCD7", "U+DCD8", "U+DCD9", "U+DCDA", "U+DCDB", "U+DCDC", "U+DCDD",
      "U+DCDE", "U+DCDF", "U+DCE0", "U+DCE1", "U+DCE2", "U+DCE3", "U+DCE4",
      "U+DCE5", "U+DCE6", "U+DCE7", "U+DCE8", "U+DCE9", "U+DCEA", "U+DCEB",
      "U+DCEC", "U+DCED", "U+DCEE", "U+DCEF", "U+DCF0", "U+DCF1", "U+DCF2",
      "U+DCF3", "U+DCF4", "U+DCF5", "U+DCF6", "U+DCF7", "U+DCF8", "U+DCF9",
      "U+DCFA", "U+DCFB", "U+DCFC", "U+DCFD", "U+DCFE", "U+DCFF", "U+DD00",
      "U+DD01", "U+DD02", "U+DD03", "U+DD04", "U+DD05", "U+DD07", "U+DD08",
      "U+DD09", "U+DD0A", "U+DD0D", "U+DD0E", "U+DD0F", "U+DD10", "U+DD11",
      "U+DD12", "U+DD13", "U+DD14", "U+DD16", "U+DD17", "U+DD18", "U+DD19",
      "U+DD1A", "U+DD1B", "U+DD1C", "U+DD1E", "U+DD1F", "U+DD20", "U+DD21",
      "U+DD22", "U+DD23", "U+DD24", "U+DD25", "U+DD26", "U+DD27", "U+DD28",
      "U+DD29", "U+DD2A", "U+DD2B", "U+DD2C", "U+DD2D", "U+DD2E", "U+DD2F",
      "U+DD30", "U+DD31", "U+DD32", "U+DD33", "U+DD34", "U+DD35", "U+DD36",
      "U+DD37", "U+DD38", "U+DD39", "U+DD3B", "U+DD3C", "U+DD3D", "U+DD3E",
      "U+DD40", "U+DD41", "U+DD42", "U+DD43", "U+DD44", "U+DD46", "U+DD4A",
      "U+DD4B", "U+DD4C", "U+DD4D", "U+DD4E", "U+DD4F", "U+DD50", "U+DD52",
      "U+DD53", "U+DD54", "U+DD55", "U+DD56", "U+DD57", "U+DD58", "U+DD59",
      "U+DD5A", "U+DD5B", "U+DD5C", "U+DD5D", "U+DD5E", "U+DD5F", "U+DD60",
      "U+DD61", "U+DD62", "U+DD63", "U+DD64", "U+DD65", "U+DD66", "U+DD67",
      "U+DD68", "U+DD69", "U+DD6A", "U+DD6B", "U+DD6C", "U+DD6D", "U+DD6E",
      "U+DD6F", "U+DD70", "U+DD71", "U+DD72", "U+DD73", "U+DD74", "U+DD75",
      "U+DD76", "U+DD77", "U+DD78", "U+DD79", "U+DD7A", "U+DD7B", "U+DD7C",
      "U+DD7D", "U+DD7E", "U+DD7F", "U+DD80", "U+DD81", "U+DD82", "U+DD83",
      "U+DD84", "U+DD85", "U+DD86", "U+DD87", "U+DD88", "U+DD89", "U+DD8A",
      "U+DD8B", "U+DD8C", "U+DD8D", "U+DD8E", "U+DD8F", "U+DD90", "U+DD91",
      "U+DD92", "U+DD93", "U+DD94", "U+DD95", "U+DD96", "U+DD97", "U+DD98",
      "U+DD99", "U+DD9A", "U+DD9B", "U+DD9C", "U+DD9D", "U+DD9E", "U+DD9F",
      "U+DDA0", "U+DDA1", "U+DDA2", "U+DDA3", "U+DDA4", "U+DDA5", "U+DDA6",
      "U+DDA7", "U+DDA8", "U+DDA9", "U+DDAA", "U+DDAB", "U+DDAC", "U+DDAD",
      "U+DDAE", "U+DDAF", "U+DDB0", "U+DDB1", "U+DDB2", "U+DDB3", "U+DDB4",
      "U+DDB5", "U+DDB6", "U+DDB7", "U+DDB8", "U+DDB9", "U+DDBA", "U+DDBB",
      "U+DDBC", "U+DDBD", "U+DDBE", "U+DDBF", "U+DDC0", "U+DDC1", "U+DDC2",
      "U+DDC3", "U+DDC4", "U+DDC5", "U+DDC6", "U+DDC7", "U+DDC8", "U+DDC9",
      "U+DDCA", "U+DDCB", "U+DDCC", "U+DDCD", "U+DDCE", "U+DDCF", "U+DDD0",
      "U+DDD1", "U+DDD2", "U+DDD3", "U+DDD4", "U+DDD5", "U+DDD6", "U+DDD7",
      "U+DDD8", "U+DDD9", "U+DDDA", "U+DDDB", "U+DDDC", "U+DDDD", "U+DDDE",
      "U+DDDF", "U+DDE0", "U+DDE1", "U+DDE2", "U+DDE3", "U+DDE4", "U+DDE5",
      "U+DDE6", "U+DDE7", "U+DDE8", "U+DDE9", "U+DDEA", "U+DDEB", "U+DDEC",
      "U+DDED", "U+DDEE", "U+DDEF", "U+DDF0", "U+DDF1", "U+DDF2", "U+DDF3",
      "U+DDF4", "U+DDF5", "U+DDF6", "U+DDF7", "U+DDF8", "U+DDF9", "U+DDFA",
      "U+DDFB", "U+DDFC", "U+DDFD", "U+DDFE", "U+DDFF", "U+DE00", "U+DE01",
      "U+DE02", "U+DE03", "U+DE04", "U+DE05", "U+DE06", "U+DE07", "U+DE08",
      "U+DE09", "U+DE0A", "U+DE0B", "U+DE0C", "U+DE0D", "U+DE0E", "U+DE0F",
      "U+DE10", "U+DE11", "U+DE12", "U+DE13", "U+DE14", "U+DE15", "U+DE16",
      "U+DE17", "U+DE18", "U+DE19", "U+DE1A", "U+DE1B", "U+DE1C", "U+DE1D",
      "U+DE1E", "U+DE1F", "U+DE20", "U+DE21", "U+DE22", "U+DE23", "U+DE24",
      "U+DE25", "U+DE26", "U+DE27", "U+DE28", "U+DE29", "U+DE2A", "U+DE2B",
      "U+DE2C", "U+DE2D", "U+DE2E", "U+DE2F", "U+DE30", "U+DE31", "U+DE32",
      "U+DE33", "U+DE34", "U+DE35", "U+DE36", "U+DE37", "U+DE38", "U+DE39",
      "U+DE3A", "U+DE3B", "U+DE3C", "U+DE3D", "U+DE3E", "U+DE3F", "U+DE40",
      "U+DE41", "U+DE42", "U+DE43", "U+DE44", "U+DE45", "U+DE46", "U+DE47",
      "U+DE48", "U+DE49", "U+DE4A", "U+DE4B", "U+DE4C", "U+DE4D", "U+DE4E",
      "U+DE4F", "U+DE50", "U+DE51", "U+DE52", "U+DE53", "U+DE54", "U+DE55",
      "U+DE56", "U+DE57", "U+DE58", "U+DE59", "U+DE5A", "U+DE5B", "U+DE5C",
      "U+DE5D", "U+DE5E", "U+DE5F", "U+DE60", "U+DE61", "U+DE62", "U+DE63",
      "U+DE64", "U+DE65", "U+DE66", "U+DE67", "U+DE68", "U+DE69", "U+DE6A",
      "U+DE6B", "U+DE6C", "U+DE6D", "U+DE6E", "U+DE6F", "U+DE70", "U+DE71",
      "U+DE72", "U+DE73", "U+DE74", "U+DE75", "U+DE76", "U+DE77", "U+DE78",
      "U+DE79", "U+DE7A", "U+DE7B", "U+DE7C", "U+DE7D", "U+DE7E", "U+DE7F",
      "U+DE80", "U+DE81", "U+DE82", "U+DE83", "U+DE84", "U+DE85", "U+DE86",
      "U+DE87", "U+DE88", "U+DE89", "U+DE8A", "U+DE8B", "U+DE8C", "U+DE8D",
      "U+DE8E", "U+DE8F", "U+DE90", "U+DE91", "U+DE92", "U+DE93", "U+DE94",
      "U+DE95", "U+DE96", "U+DE97", "U+DE98", "U+DE99", "U+DE9A", "U+DE9B",
      "U+DE9C", "U+DE9D", "U+DE9E", "U+DE9F", "U+DEA0", "U+DEA1", "U+DEA2",
      "U+DEA3", "U+DEA4", "U+DEA5", "U+DEA8", "U+DEA9", "U+DEAA", "U+DEAB",
      "U+DEAC", "U+DEAD", "U+DEAE", "U+DEAF", "U+DEB0", "U+DEB1", "U+DEB2",
      "U+DEB3", "U+DEB4", "U+DEB5", "U+DEB6", "U+DEB7", "U+DEB8", "U+DEB9",
      "U+DEBA", "U+DEBB", "U+DEBC", "U+DEBD", "U+DEBE", "U+DEBF", "U+DEC0",
      "U+DEC2", "U+DEC3", "U+DEC4", "U+DEC5", "U+DEC6", "U+DEC7", "U+DEC8",
      "U+DEC9", "U+DECA", "U+DECB", "U+DECC", "U+DECD", "U+DECE", "U+DECF",
      "U+DED0", "U+DED1", "U+DED2", "U+DED3", "U+DED4", "U+DED5", "U+DED6",
      "U+DED7", "U+DED8", "U+DED9", "U+DEDA", "U+DEDC", "U+DEDD", "U+DEDE",
      "U+DEDF", "U+DEE0", "U+DEE1", "U+DEE2", "U+DEE3", "U+DEE4", "U+DEE5",
      "U+DEE6", "U+DEE7", "U+DEE8", "U+DEE9", "U+DEEA", "U+DEEB", "U+DEEC",
      "U+DEED", "U+DEEE", "U+DEEF", "U+DEF0", "U+DEF1", "U+DEF2", "U+DEF3",
      "U+DEF4", "U+DEF5", "U+DEF6", "U+DEF7", "U+DEF8", "U+DEF9", "U+DEFA",
      "U+DEFC", "U+DEFD", "U+DEFE", "U+DEFF", "U+DF00", "U+DF01", "U+DF02",
      "U+DF03", "U+DF04", "U+DF05", "U+DF06", "U+DF07", "U+DF08", "U+DF09",
      "U+DF0A", "U+DF0B", "U+DF0C", "U+DF0D", "U+DF0E", "U+DF0F", "U+DF10",
      "U+DF11", "U+DF12", "U+DF13", "U+DF14", "U+DF16", "U+DF17", "U+DF18",
      "U+DF19", "U+DF1A", "U+DF1B", "U+DF1C", "U+DF1D", "U+DF1E", "U+DF1F",
      "U+DF20", "U+DF21", "U+DF22", "U+DF23", "U+DF24", "U+DF25", "U+DF26",
      "U+DF27", "U+DF28", "U+DF29", "U+DF2A", "U+DF2B", "U+DF2C", "U+DF2D",
      "U+DF2E", "U+DF2F", "U+DF30", "U+DF31", "U+DF32", "U+DF33", "U+DF34",
      "U+DF36", "U+DF37", "U+DF38", "U+DF39", "U+DF3A", "U+DF3B", "U+DF3C",
      "U+DF3D", "U+DF3E", "U+DF3F", "U+DF40", "U+DF41", "U+DF42", "U+DF43",
      "U+DF44", "U+DF45", "U+DF46", "U+DF47", "U+DF48", "U+DF49", "U+DF4A",
      "U+DF4B", "U+DF4C", "U+DF4D", "U+DF4E", "U+DF50", "U+DF51", "U+DF52",
      "U+DF53", "U+DF54", "U+DF55", "U+DF56", "U+DF57", "U+DF58", "U+DF59",
      "U+DF5A", "U+DF5B", "U+DF5C", "U+DF5D", "U+DF5E", "U+DF5F", "U+DF60",
      "U+DF61", "U+DF62", "U+DF63", "U+DF64", "U+DF65", "U+DF66", "U+DF67",
      "U+DF68", "U+DF69", "U+DF6A", "U+DF6B", "U+DF6C", "U+DF6D", "U+DF6E",
      "U+DF70", "U+DF71", "U+DF72", "U+DF73", "U+DF74", "U+DF75", "U+DF76",
      "U+DF77", "U+DF78", "U+DF79", "U+DF7A", "U+DF7B", "U+DF7C", "U+DF7D",
      "U+DF7E", "U+DF7F", "U+DF80", "U+DF81", "U+DF82", "U+DF83", "U+DF84",
      "U+DF85", "U+DF86", "U+DF87", "U+DF88", "U+DF8A", "U+DF8B", "U+DF8C",
      "U+DF8D", "U+DF8E", "U+DF8F", "U+DF90", "U+DF91", "U+DF92", "U+DF93",
      "U+DF94", "U+DF95", "U+DF96", "U+DF97", "U+DF98", "U+DF99", "U+DF9A",
      "U+DF9B", "U+DF9C", "U+DF9D", "U+DF9E", "U+DF9F", "U+DFA0", "U+DFA1",
      "U+DFA2", "U+DFA3", "U+DFA4", "U+DFA5", "U+DFA6", "U+DFA7", "U+DFA8",
      "U+DFAA", "U+DFAB", "U+DFAC", "U+DFAD", "U+DFAE", "U+DFAF", "U+DFB0",
      "U+DFB1", "U+DFB2", "U+DFB3", "U+DFB4", "U+DFB5", "U+DFB6", "U+DFB7",
      "U+DFB8", "U+DFB9", "U+DFBA", "U+DFBB", "U+DFBC", "U+DFBD", "U+DFBE",
      "U+DFBF", "U+DFC0", "U+DFC1", "U+DFC2", "U+DFC4", "U+DFC5", "U+DFC6",
      "U+DFC7", "U+DFC8", "U+DFC9", "U+DFCA", "U+DFCB" })
  \cup
  ({"U+D837"} \X {
      "U+DF00", "U+DF01", "U+DF02", "U+DF03", "U+DF04", "U+DF05", "U+DF06",
      "U+DF07", "U+DF08", "U+DF09", "U+DF0B", "U+DF0C", "U+DF0D", "U+DF0E",
      "U+DF0F", "U+DF10", "U+DF11", "U+DF12", "U+DF13", "U+DF14", "U+DF15",
      "U+DF16", "U+DF17", "U+DF18", "U+DF19", "U+DF1A", "U+DF1B", "U+DF1C",
      "U+DF1D", "U+DF1E", "U+DF25", "U+DF26", "U+DF27", "U+DF28", "U+DF29",
      "U+DF2A" })
  \cup
  ({"U+D83A"} \X {
      "U+DD00", "U+DD01", "U+DD02", "U+DD03", "U+DD04", "U+DD05", "U+DD06",
      "U+DD07", "U+DD08", "U+DD09", "U+DD0A", "U+DD0B", "U+DD0C", "U+DD0D",
      "U+DD0E", "U+DD0F", "U+DD10", "U+DD11", "U+DD12", "U+DD13", "U+DD14",
      "U+DD15", "U+DD16", "U+DD17", "U+DD18", "U+DD19", "U+DD1A", "U+DD1B",
      "U+DD1C", "U+DD1D", "U+DD1E", "U+DD1F", "U+DD20", "U+DD21", "U+DD22",
      "U+DD23", "U+DD24", "U+DD25", "U+DD26", "U+DD27", "U+DD28", "U+DD29",
      "U+DD2A", "U+DD2B", "U+DD2C", "U+DD2D", "U+DD2E", "U+DD2F", "U+DD30",
      "U+DD31", "U+DD32", "U+DD33", "U+DD34", "U+DD35", "U+DD36", "U+DD37",
      "U+DD38", "U+DD39", "U+DD3A", "U+DD3B", "U+DD3C", "U+DD3D", "U+DD3E",
      "U+DD3F", "U+DD40", "U+DD41", "U+DD42", "U+DD43" })
  \cup
  ({"U+D83C"} \X {
      "U+DD30", "U+DD31", "U+DD32", "U+DD33", "U+DD34", "U+DD35", "U+DD36",
      "U+DD37", "U+DD38", "U+DD39", "U+DD3A", "U+DD3B", "U+DD3C", "U+DD3D",
      "U+DD3E", "U+DD3F", "U+DD40", "U+DD41", "U+DD42", "U+DD43", "U+DD44",
      "U+DD45", "U+DD46", "U+DD47", "U+DD48", "U+DD49", "U+DD50", "U+DD51",
      "U+DD52", "U+DD53", "U+DD54", "U+DD55", "U+DD56", "U+DD57", "U+DD58",
      "U+DD59", "U+DD5A", "U+DD5B", "U+DD5C", "U+DD5D", "U+DD5E", "U+DD5F",
      "U+DD60", "U+DD61", "U+DD62", "U+DD63", "U+DD64", "U+DD65", "U+DD66",
      "U+DD67", "U+DD68", "U+DD69", "U+DD70", "U+DD71", "U+DD72", "U+DD73",
      "U+DD74", "U+DD75", "U+DD76", "U+DD77", "U+DD78", "U+DD79", "U+DD7A",
      "U+DD7B", "U+DD7C", "U+DD7D", "U+DD7E", "U+DD7F", "U+DD80", "U+DD81",
      "U+DD82", "U+DD83", "U+DD84", "U+DD85", "U+DD86", "U+DD87", "U+DD88",
      "U+DD89" })

\* code points of the Basic Multilingual Plane with the property
\* Case_Ignorable (Unicode 17.0.0, DerivedCoreProperties.txt)
CaseIgnorableBMP ==
  {
    "'", ".", ":", "^", "U+0060", "U+00A8", "U+00AD", "U+00AF", "U+00B4",
    "U+00B7", "U+00B8", "U+02B0", "U+02B1", "U+02B2", "U+02B3", "U+02B4",
    "U+02B5", "U+02B6", "U+02B7", "U+02B8", "U+02B9", "U+02BA", "U+02BB",
    "U+02BC", "U+02BD", "U+02BE", "U+02BF", "U+02C0", "U+02C1", "U+02C2",
    "U+02C3", "U+02C4", "U+02C5", "U+02C6", "U+02C7", "U+02C8", "U+02C9",
    "U+02CA", "U+02CB", "U+02CC", "U+02CD", "U+02CE", "U+02CF", "U+02D0",
    "U+02D1", "U+02D2", "U+02D3", "U+02D4", "U+02D5", "U+02D6", "U+02D7",
    "U+02D8", "U+02D9", "U+02DA", "U+02DB", "U+02DC", "U+02DD", "U+02DE",
    "U+02DF", "U+02E0", "U+02E1", "U+02E2", "U+02E3", "U+02E4", "U+02E5",
    "U+02E6", "U+02E7", "U+02E8", "U+02E9", "U+02EA", "U+02EB", "U+02EC",
    "U+02ED", "U+02EE", "U+02EF", "U+02F0", "U+02F1", "U+02F2", "U+02F3",
    "U+02F4", "U+02F5", "U+02F6", "U+02F7", "U+02F8", "U+02F9", "U+02FA",
    "U+02FB", "U+02FC", "U+02FD", "U+02FE", "U+02FF", "U+0300", "U+0301",
    "U+0302", "U+0303", "U+0304", "U+0305", "U+0306", "U+0307", "U+0308",
    "U+0309", "U+030A", "U+030B", "U+030C", "U+030D", "U+030E", "U+030F",
    "U+0310", "U+0311", "U+0312", "U+0313", "U+0314", "U+0315", "U+0316",
    "U+0317", "U+0318", "U+0319", "U+031A", "U+031B", "U+031C", "U+031D",
    "U+031E", "U+031F", "U+0320", "U+0321", "U+0322", "U+0323", "U+0324",
    "U+0325", "U+0326", "U+0327", "U+0328", "U+0329", "U+032A", "U+032B",
    "U+032C", "U+032D", "U+032E", "U+032F", "U+0330", "U+0331", "U+0332",
    "U+0333", "U+0334", "U+0335", "U+0336", "U+0337", "U+0338", "U+0339",
    "U+033A", "U+033B", "U+033C", "U+033D", "U+033E", "U+033F", "U+0340",
    "U+0341", "U+0342", "U+0343", "U+0344", "U+0345", "U+0346", "U+0347",
    "U+0348", "U+0349", "U+034A", "U+034B", "U+034C", "U+034D", "U+034E",
    "U+034F", "U+0350", "U+0351", "U+0352", "U+0353", "U+0354", "U+0355",
    "U+0356", "U+0357", "U+0358", "U+0359", "U+035A", "U+035B", "U+035C",
    "U+035D", "U+035E", "U+035F", "U+0360", "U+0361", "U+0362", "U+0363",
    "U+0364", "U+0365", "U+0366", "U+0367", "U+0368", "U+0369", "U+036A",
    "U+036B", "U+036C", "U+036D", "U+036E", "U+036F", "U+0374", "U+0375",
    "U+037A", "U+0384", "U+0385", "U+0387", "U+0483", "U+0484", "U+0485",
    "U+0486", "U+0487", "U+0488", "U+0489", "U+0559", "U+055F", "U+0591",
    "U+0592", "U+0593", "U+0594", "U+0595", "U+0596", "U+0597", "U+0598",
    "U+0599", "U+059A", "U+059B", "U+059C", "U+059D", "U+059E", "U+059F",
    "U+05A0", "U+05A1", "U+05A2", "U+05A3", "U+05A4", "U+05A5", "U+05A6",
    "U+05A7", "U+05A8", "U+05A9", "U+05AA", "U+05AB", "U+05AC", "U+05AD",
    "U+05AE", "U+05AF", "U+05B0", "U+05B1", "U+05B2", "U+05B3", "U+05B4",
    "U+05B5", "U+05B6", "U+05B7", "U+05B8", "U+05B9", "U+05BA", "U+05BB",
    "U+05BC", "U+05BD", "U+05BF", "U+05C1", "U+05C2", "U+05C4", "U+05C5",
    "U+05C7", "U+05F4", "U+0600", "U+0601", "U+0602", "U+0603", "U+0604",
    "U+0605", "U+0610", "U+0611", "U+0612", "U+0613", "U+0614", "U+0615",
    "U+0616", "U+0617", "U+0618", "U+0619", "U+061A", "U+061C", "U+0640",
    "U+064B", "U+064C", "U+064D", "U+064E", "U+064F", "U+0650", "U+0651",
    "U+0652", "U+0653", "U+0654", "U+0655", "U+0656", "U+0657", "U+0658",
    "U+0659", "U+065A", "U+065B", "U+065C", "U+065D", "U+065E", "U+065F",
    "U+0670", "U+06D6", "U+06D7", "U+06D8", "U+06D9", "U+06DA", "U+06DB",
    "U+06DC", "U+06DD", "U+06DF", "U+06E0", "U+06E1", "U+06E2", "U+06E3",
    "U+06E4", "U+06E5", "U+06E6", "U+06E7", "U+06E8", "U+06EA", "U+06EB",
    "U+06EC", "U+06ED", "U+070F", "U+0711", "U+0730", "U+0731", "U+0732",
    "U+0733", "U+0734", "U+0735", "U+0736", "U+0737", "U+0738", "U+0739",
    "U+073A", "U+073B", "U+073C", "U+073D", "U+073E", "U+073F", "U+0740",
    "U+0741", "U+0742", "U+0743", "U+0744", "U+0745", "U+0746", "U+0747",
    "U+0748", "U+0749", "U+074A", "U+07A6", "U+07A7", "U+07A8", "U+07A9",
    "U+07AA", "U+07AB", "U+07AC", "U+07AD", "U+07AE", "U+07AF", "U+07B0",
    "U+07EB", "U+07EC", "U+07ED", "U+07EE", "U+07EF", "U+07F0", "U+07F1",
    "U+07F2", "U+07F3", "U+07F4", "U+07F5", "U+07FA", "U+07FD", "U+0816",
    "U+0817", "U+0818", "U+0819", "U+081A", "U+081B", "U+081C", "U+081D",
    "U+081E", "U+081F", "U+0820", "U+0821", "U+0822", "U+0823", "U+0824",
    "U+0825", "U+0826", "U+0827", "U+0828", "U+0829", "U+082A", "U+082B",
    "U+082C", "U+082D", "U+0859", "U+085A", "U+085B", "U+0888", "U+0890",
    "U+0891", "U+0897", "U+0898", "U+0899", "U+089A", "U+089B", "U+089C",
    "U+089D", "U+089E", "U+089F", "U+08C9", "U+08CA", "U+08CB", "U+08CC",
    "U+08CD", "U+08CE", "U+08CF", "U+08D0", "U+08D1", "U+08D2", "U+08D3",
    "U+08D4", "U+08D5", "U+08D6", "U+08D7", "U+08D8", "U+08D9", "U+08DA",
    "U+08DB", "U+08DC", "U+08DD", "U+08DE", "U+08DF", "U+08E0", "U+08E1",
    "U+08E2", "U+08E3", "U+08E4", "U+08E5", "U+08E6", "U+08E7", "U+08E8",
    "U+08E9", "U+08EA", "U+08EB", "U+08EC", "U+08ED", "U+08EE", "U+08EF",
    "U+08F0", "U+08F1", "U+08F2", "U+08F3", "U+08F4", "U+08F5", "U+08F6",
    "U+08F7", "U+08F8", "U+08F9", "U+08FA", "U+08FB", "U+08FC", "U+08FD",
    "U+08FE", "U+08FF", "U+0900", "U+0901", "U+0902", "U+093A", "U+093C",
    "U+0941", "U+0942", "U+0943", "U+0944", "U+0945", "U+0946", "U+0947",
    "U+0948", "U+094D", "U+0951", "U+0952", "U+0953", "U+0954", "U+0955",
    "U+0956", "U+0957", "U+0962", "U+0963", "U+0971", "U+0981", "U+09BC",
    "U+09C1", "U+09C2", "U+09C3", "U+09C4", "U+09CD", "U+09E2", "U+09E3",
    "U+09FE", "U+0A01", "U+0A02", "U+0A3C", "U+0A41", "U+0A42", "U+0A47",
    "U+0A48", "U+0A4B", "U+0A4C", "U+0A4D", "U+0A51", "U+0A70", "U+0A71",
    "U+0A75", "U+0A81", "U+0A82", "U+0ABC", "U+0AC1", "U+0AC2", "U+0AC3",
    "U+0AC4", "U+0AC5", "U+0AC7", "U+0AC8", "U+0ACD", "U+0AE2", "U+0AE3",
    "U+0AFA", "U+0AFB", "U+0AFC", "U+0AFD", "U+0AFE", "U+0AFF", "U+0B01",
    "U+0B3C", "U+0B3F", "U+0B41", "U+0B42", "U+0B43", "U+0B44", "U+0B4D",
    "U+0B55", "U+0B56", "U+0B62", "U+0B63", "U+0B82", "U+0BC0", "U+0BCD",
    "U+0C00", "U+0C04", "U+0C3C", "U+0C3E", "U+0C3F", "U+0C40", "U+0C46",
    "U+0C47", "U+0C48", "U+0C4A", "U+0C4B", "U+0C4C", "U+0C4D", "U+0C55",
    "U+0C56", "U+0C62", "U+0C63", "U+0C81", "U+0CBC", "U+0CBF", "U+0CC6",
    "U+0CCC", "U+0CCD", "U+0CE2", "U+0CE3", "U+0D00", "U+0D01", "U+0D3B",
    "U+0D3C", "U+0D41", "U+0D42", "U+0D43", "U+0D44", "U+0D4D", "U+0D62",
    "U+0D63", "U+0D81", "U+0DCA", "U+0DD2", "U+0DD3", "U+0DD4", "U+0DD6",
    "U+0E31", "U+0E34", "U+0E35", "U+0E36", "U+0E37", "U+0E38", "U+0E39",
    "U+0E3A", "U+0E46", "U+0E47", "U+0E48", "U+0E49", "U+0E4A", "U+0E4B",
    "U+0E4C", "U+0E4D", "U+0E4E", "U+0EB1", "U+0EB4", "U+0EB5", "U+0EB6",
    "U+0EB7", "U+0EB8", "U+0EB9", "U+0EBA", "U+0EBB", "U+0EBC", "U+0EC6",
    "U+0EC8", "U+0EC9", "U+0ECA", "U+0ECB", "U+0ECC", "U+0ECD", "U+0ECE",
    "U+0F18", "U+0F19", "U+0F35", "U+0F37", "U+0F39", "U+0F71", "U+0F72",
    "U+0F73", "U+0F74", "U+0F75", "U+0F76", "U+0F77", "U+0F78", "U+0F79",
    "U+0F7A", "U+0F7B", "U+0F7C", "U+0F7D", "U+0F7E", "U+0F80", "U+0F81",
    "U+0F82", "U+0F83", "U+0F84", "U+0F86", "U+0F87", "U+0F8D", "U+0F8E",
    "U+0F8F", "U+0F90", "U+0F91", "U+0F92", "U+0F93", "U+0F94", "U+0F95",
    "U+0F96", "U+0F97", "U+0F99", "U+0F9A", "U+0F9B", "U+0F9C", "U+0F9D",
    "U+0F9E", "U+0F9F", "U+0FA0", "U+0FA1", "U+0FA2", "U+0FA3", "U+0FA4",
    "U+0FA5", "U+0FA6", "U+0FA7", "U+0FA8", "U+0FA9", "U+0FAA", "U+0FAB",
    "U+0FAC", "U+0FAD", "U+0FAE", "U+0FAF", "U+0FB0", "U+0FB1", "U+0FB2",
    "U+0FB3", "U+0FB4", "U+0FB5", "U+0FB6", "U+0FB7", "U+0FB8", "U+0FB9",
    "U+0FBA", "U+0FBB", "U+0FBC", "U+0FC6", "U+102D", "U+102E", "U+102F",
    "U+1030", "U+1032", "U+1033", "U+1034", "U+1035", "U+1036", "U+1037",
    "U+1039", "U+103A", "U+103D", "U+103E", "U+1058", "U+1059", "U+105E",
    "U+105F", "U+1060", "U+1071", "U+1072", "U+1073", "U+1074", "U+1082",
    "U+1085", "U+1086", "U+108D", "U+109D", "U+10FC", "U+135D", "U+135E",
    "U+135F", "U+1712", "U+1713", "U+1714", "U+1732", "U+1733", "U+1752",
    "U+1753", "U+1772", "U+1773", "U+17B4", "U+17B5", "U+17B7", "U+17B8",
    "U+17B9", "U+17BA", "U+17BB", "U+17BC", "U+17BD", "U+17C6", "U+17C9",
    "U+17CA", "U+17CB", "U+17CC", "U+17CD", "U+17CE", "U+17CF", "U+17D0",
    "U+17D1", "U+17D2", "U+17D3", "U+17D7", "U+17DD", "U+180B", "U+180C",
    "U+180D", "U+180E", "U+180F", "U+1843", "U+1885", "U+1886", "U+18A9",
    "U+1920", "U+1921", "U+1922", "U+1927", "U+1928", "U+1932", "U+1939",
    "U+193A", "U+193B", "U+1A17", "U+1A18", "U+1A1B", "U+1A56", "U+1A58",
    "U+1A59", "U+1A5A", "U+1A5B", "U+1A5C", "U+1A5D", "U+1A5E", "U+1A60",
    "U+1A62", "U+1A65", "U+1A66", "U+1A67", "U+1A68", "U+1A69", "U+1A6A",
    "U+1A6B", "U+1A6C", "U+1A73", "U+1A74", "U+1A75", "U+1A76", "U+1A77",
    "U+1A78", "U+1A79", "U+1A7A", "U+1A7B", "U+1A7C", "U+1A7F", "U+1AA7",
    "U+1AB0", "U+1AB1", "U+1AB2", "U+1AB3", "U+1AB4", "U+1AB5", "U+1AB6",
    "U+1AB7", "U+1AB8", "U+1AB9", "U+1ABA", "U+1ABB", "U+1ABC", "U+1ABD",
    "U+1ABE", "U+1ABF", "U+1AC0", "U+1AC1", "U+1AC2", "U+1AC3", "U+1AC4",
    "U+1AC5", "U+1AC6", "U+1AC7", "U+1AC8", "U+1AC9", "U+1ACA", "U+1ACB",
    "U+1ACC", "U+1ACD", "U+1ACE", "U+1ACF", "U+1AD0", "U+1AD1", "U+1AD2",
    "U+1AD3", "U+1AD4", "U+1AD5", "U+1AD6", "U+1AD7", "U+1AD8", "U+1AD9",
    "U+1ADA", "U+1ADB", "U+1ADC", "U+1ADD", "U+1AE0", "U+1AE1", "U+1AE2",
    "U+1AE3", "U+1AE4", "U+1AE5", "U+1AE6", "U+1AE7", "U+1AE8", "U+1AE9",
    "U+1AEA", "U+1AEB", "U+1B00", "U+1B01", "U+1B02", "U+1B03", "U+1B34",
    "U+1B36", "U+1B37", "U+1B38", "U+1B39", "U+1B3A", "U+1B3C", "U+1B42",
    "U+1B6B", "U+1B6C", "U+1B6D", "U+1B6E", "U+1B6F", "U+1B70", "U+1B71",
    "U+1B72", "U+1B73", "U+1B80", "U+1B81", "U+1BA2", "U+1BA3", "U+1BA4",
    "U+1BA5", "U+1BA8", "U+1BA9", "U+1BAB", "U+1BAC", "U+1BAD", "U+1BE6",
    "U+1BE8", "U+1BE9", "U+1BED", "U+1BEF", "U+1BF0", "U+1BF1", "U+1C2C",
    "U+1C2D", "U+1C2E", "U+1C2F", "U+1C30", "U+1C31", "U+1C32", "U+1C33",
    "U+1C36", "U+1C37", "U+1C78", "U+1C79", "U+1C7A", "U+1C7B", "U+1C7C",
    "U+1C7D", "U+1CD0", "U+1CD1", "U+1CD2", "U+1CD4", "U+1CD5", "U+1CD6",
    "U+1CD7", "U+1CD8", "U+1CD9", "U+1CDA", "U+1CDB", "U+1CDC", "U+1CDD",
    "U+1CDE", "U+1CDF", "U+1CE0", "U+1CE2", "U+1CE3", "U+1CE4", "U+1CE5",
    "U+1CE6", "U+1CE7", "U+1CE8", "U+1CED", "U+1CF4", "U+1CF8", "U+1CF9",
    "U+1D2C", "U+1D2D", "U+1D2E", "U+1D2F", "U+1D30", "U+1D31", "U+1D32",
    "U+1D33", "U+1D34", "U+1D35", "U+1D36", "U+1D37", "U+1D38", "U+1D39",
    "U+1D3A", "U+1D3B", "U+1D3C", "U+1D3D", "U+1D3E", "U+1D3F", "U+1D40",
    "U+1D41", "U+1D42", "U+1D43", "U+1D44", "U+1D45", "U+1D46", "U+1D47",
    "U+1D48", "U+1D49", "U+1D4A", "U+1D4B", "U+1D4C", "U+1D4D", "U+1D4E",
    "U+1D4F", "U+1D50", "U+1D51", "U+1D52", "U+1D53", "U+1D54", "U+1D55",
    "U+1D56", "U+1D57", "U+1D58", "U+1D59", "U+1D5A", "U+1D5B", "U+1D5C",
    "U+1D5D", "U+1D5E", "U+1D5F", "U+1D60", "U+1D61", "U+1D62", "U+1D63",
    "U+1D64", "U+1D65", "U+1D66", "U+1D67", "U+1D68", "U+1D69", "U+1D6A",
    "U+1D78", "U+1D9B", "U+1D9C", "U+1D9D", "U+1D9E", "U+1D9F", "U+1DA0",
    "U+1DA1", "U+1DA2", "U+1DA3", "U+1DA4", "U+1DA5", "U+1DA6", "U+1DA7",
    "U+1DA8", "U+1DA9", "U+1DAA", "U+1DAB", "U+1DAC", "U+1DAD", "U+1DAE",
    "U+1DAF", "U+1DB0", "U+1DB1", "U+1DB2", "U+1DB3", "U+1DB4", "U+1DB5",
    "U+1DB6", "U+1DB7", "U+1DB8", "U+1DB9", "U+1DBA", "U+1DBB", "U+1DBC",
    "U+1DBD", "U+1DBE", "U+1DBF", "U+1DC0", "U+1DC1", "U+1DC2", "U+1DC3",
    "U+1DC4", "U+1DC5", "U+1DC6", "U+1DC7", "U+1DC8", "U+1DC9", "U+1DCA",
    "U+1DCB", "U+1DCC", "U+1DCD", "U+1DCE", "U+1DCF", "U+1DD0", "U+1DD1",
    "U+1DD2", "U+1DD3", "U+1DD4", "U+1DD5", "U+1DD6", "U+1DD7", "U+1DD8",
    "U+1DD9", "U+1DDA", "U+1DDB", "U+1DDC", "U+1DDD", "U+1DDE", "U+1DDF",
    "U+1DE0", "U+1DE1", "U+1DE2", "U+1DE3", "U+1DE4", "U+1DE5", "U+1DE6",
    "U+1DE7", "U+1DE8", "U+1DE9", "U+1DEA", "U+1DEB", "U+1DEC", "U+1DED",
    "U+1DEE", "U+1DEF", "U+1DF0", "U+1DF1", "U+1DF2", "U+1DF3", "U+1DF4",
    "U+1DF5", "U+1DF6", "U+1DF7", "U+1DF8", "U+1DF9", "U+1DFA", "U+1DFB",
    "U+1DFC", "U+1DFD", "U+1DFE", "U+1DFF", "U+1FBD", "U+1FBF", "U+1FC0",
    "U+1FC1", "U+1FCD", "U+1FCE", "U+1FCF", "U+1FDD", "U+1FDE", "U+1FDF",
    "U+1FED", "U+1FEE", "U+1FEF", "U+1FFD", "U+1FFE", "U+200B", "U+200C",
    "U+200D", "U+200E", "U+200F", "U+2018", "U+2019", "U+2024", "U+2027",
    "U+202A", "U+202B", "U+202C", "U+202D", "U+202E", "U+2060", "U+2061",
    "U+2062", "U+2063", "U+2064", "U+2066", "U+2067", "U+2068", "U+2069",
    "U+206A", "U+206B", "U+206C", "U+206D", "U+206E", "U+206F", "U+2071",
    "U+207F", "U+2090", "U+2091", "U+2092", "U+2093", "U+2094", "U+2095",
    "U+2096", "U+2097", "U+2098", "U+2099", "U+209A", "U+209B", "U+209C",
    "U+20D0", "U+20D1", "U+20D2", "U+20D3", "U+20D4", "U+20D5", "U+20D6",
    "U+20D7", "U+20D8", "U+20D9", "U+20DA", "U+20DB", "U+20DC", "U+20DD",
    "U+20DE", "U+20DF", "U+20E0", "U+20E1", "U+20E2", "U+20E3", "U+20E4",
    "U+20E5", "U+20E6", "U+20E7", "U+20E8", "U+20E9", "U+20EA", "U+20EB",
    "U+20EC", "U+20ED", "U+20EE", "U+20EF", "U+20F0", "U+2C7C", "U+2C7D",
    "U+2CEF", "U+2CF0", "U+2CF1", "U+2D6F", "U+2D7F", "U+2DE0", "U+2DE1",
    "U+2DE2", "U+2DE3", "U+2DE4", "U+2DE5", "U+2DE6", "U+2DE7", "U+2DE8",
    "U+2DE9", "U+2DEA", "U+2DEB", "U+2DEC", "U+2DED", "U+2DEE", "U+2DEF",
    "U+2DF0", "U+2DF1", "U+2DF2", "U+2DF3", "U+2DF4", "U+2DF5", "U+2DF6",
    "U+2DF7", "U+2DF8", "U+2DF9", "U+2DFA", "U+2DFB", "U+2DFC", "U+2DFD",
    "U+2DFE", "U+2DFF", "U+2E2F", "U+3005", "U+302A", "U+302B", "U+302C",
    "U+302D", "U+3031", "U+3032", "U+3033", "U+3034", "U+3035", "U+303B",
    "U+3099", "U+309A", "U+309B", "U+309C", "U+309D", "U+309E", "U+30FC",
    "U+30FD", "U+30FE", "U+A015", "U+A4F8", "U+A4F9", "U+A4FA", "U+A4FB",
    "U+A4FC", "U+A4FD", "U+A60C", "U+A66F", "U+A670", "U+A671", "U+A672",
    "U+A674", "U+A675", "U+A676", "U+A677", "U+A678", "U+A679", "U+A67A",
    "U+A67B", "U+A67C", "U+A67D", "U+A67F", "U+A69C", "U+A69D", "U+A69E",
    "U+A69F", "U+A6F0", "U+A6F1", "U+A700", "U+A701", "U+A702", "U+A703",
    "U+A704", "U+A705", "U+A706", "U+A707", "U+A708", "U+A709", "U+A70A",
    "U+A70B", "U+A70C", "U+A70D", "U+A70E", "U+A70F", "U+A710", "U+A711",
    "U+A712", "U+A713", "U+A714", "U+A715", "U+A716", "U+A717", "U+A718",
    "U+A719", "U+A71A", "U+A71B", "U+A71C", "U+A71D", "U+A71E", "U+A71F",
    "U+A720", "U+A721", "U+A770", "U+A788", "U+A789", "U+A78A", "U+A7F1",
    "U+A7F2", "U+A7F3", "U+A7F4", "U+A7F8", "U+A7F9", "U+A802", "U+A806",
    "U+A80B", "U+A825", "U+A826", "U+A82C", "U+A8C4", "U+A8C5", "U+A8E0",
    "U+A8E1", "U+A8E2", "U+A8E3", "U+A8E4", "U+A8E5", "U+A8E6", "U+A8E7",
    "U+A8E8", "U+A8E9", "U+A8EA", "U+A8EB", "U+A8EC", "U+A8ED", "U+A8EE",
    "U+A8EF", "U+A8F0", "U+A8F1", "U+A8FF", "U+A926", "U+A927", "U+A928",
    "U+A929", "U+A92A", "U+A92B", "U+A92C", "U+A92D", "U+A947", "U+A948",
    "U+A949", "U+A94A", "U+A94B", "U+A94C", "U+A94D", "U+A94E", "U+A94F",
    "U+A950", "U+A951", "U+A980", "U+A981", "U+A982", "U+A9B3", "U+A9B6",
    "U+A9B7", "U+A9B8", "U+A9B9", "U+A9BC", "U+A9BD", "U+A9CF", "U+A9E5",
    "U+A9E6", "U+AA29", "U+AA2A", "U+AA2B", "U+AA2C", "U+AA2D", "U+AA2E",
    "U+AA31", "U+AA32", "U+AA35", "U+AA36", "U+AA43", "U+AA4C", "U+AA70",
    "U+AA7C", "U+AAB0", "U+AAB2", "U+AAB3", "U+AAB4", "U+AAB7", "U+AAB8",
    "U+AABE", "U+AABF", "U+AAC1", "U+AADD", "U+AAEC", "U+AAED", "U+AAF3",
    "U+AAF4", "U+AAF6", "U+AB5B", "U+AB5C", "U+AB5D", "U+AB5E", "U+AB5F",
    "U+AB69", "U+AB6A", "U+AB6B", "U+ABE5", "U+ABE8", "U+ABED", "U+FB1E",
    "U+FBB2", "U+FBB3", "U+FBB4", "U+FBB5", "U+FBB6", "U+FBB7", "U+FBB8",
    "U+FBB9", "U+FBBA", "U+FBBB", "U+FBBC", "U+FBBD", "U+FBBE", "U+FBBF",
    "U+FBC0", "U+FBC1", "U+FBC2", "U+FE00", "U+FE01", "U+FE02", "U+FE03",
    "U+FE04", "U+FE05", "U+FE06", "U+FE07", "U+FE08", "U+FE09", "U+FE0A",
    "U+FE0B", "U+FE0C", "U+FE0D", "U+FE0E", "U+FE0F", "U+FE13", "U+FE20",
    "U+FE21", "U+FE22", "U+FE23", "U+FE24", "U+FE25", "U+FE26", "U+FE27",
    "U+FE28", "U+FE29", "U+FE2A", "U+FE2B", "U+FE2C", "U+FE2D", "U+FE2E",
    "U+FE2F", "U+FE52", "U+FE55", "U+FEFF", "U+FF07", "U+FF0E", "U+FF1A",
    "U+FF3E", "U+FF40", "U+FF70", "U+FF9E", "U+FF9F", "U+FFE3", "U+FFF9",
    "U+FFFA", "U+FFFB"
  }

\* the same for the supplementary planes, as <<high, low>> surrogates
CaseIgnorableAstral ==
  ({"U+D800"} \X {
      "U+DDFD", "U+DEE0", "U+DF76", "U+DF77", "U+DF78", "U+DF79", "U+DF7A" })
  \cup
  ({"U+D801"} \X {
      "U+DF80", "U+DF81", "U+DF82", "U+DF83", "U+DF84", "U+DF85", "U+DF87",
      "U+DF88", "U+DF89", "U+DF8A", "U+DF8B", "U+DF8C", "U+DF8D", "U+DF8E",
      "U+DF8F", "U+DF90", "U+DF91", "U+DF92", "U+DF93", "U+DF94", "U+DF95",
      "U+DF96", "U+DF97", "U+DF98", "U+DF99", "U+DF9A", "U+DF9B", "U+DF9C",
      "U+DF9D", "U+DF9E", "U+DF9F", "U+DFA0", "U+DFA1", "U+DFA2", "U+DFA3",
      "U+DFA4", "U+DFA5", "U+DFA6", "U+DFA7", "U+DFA8", "U+DFA9", "U+DFAA",
      "U+DFAB", "U+DFAC", "U+DFAD", "U+DFAE", "U+DFAF", "U+DFB0", "U+DFB2",
      "U+DFB3", "U+DFB4", "U+DFB5", "U+DFB6", "U+DFB7", "U+DFB8", "U+DFB9",
      "U+DFBA" })
  \cup
  ({"U+D802"} \X {
      "U+DE01", "U+DE02", "U+DE03", "U+DE05", "U+DE06", "U+DE0C", "U+DE0D",
      "U+DE0E", "U+DE0F", "U+DE38", "U+DE39", "U+DE3A", "U+DE3F", "U+DEE5",
      "U+DEE6" })
  \cup
  ({"U+D803"} \X {
      "U+DD24", "U+DD25", "U+DD26", "U+DD27", "U+DD4E", "U+DD69", "U+DD6A",
      "U+DD6B", "U+DD6C", "U+DD6D", "U+DD6F", "U+DEAB", "U+DEAC", "U+DEC5",
      "U+DEFA", "U+DEFB", "U+DEFC", "U+DEFD", "U+DEFE", "U+DEFF", "U+DF46",
      "U+DF47", "U+DF48", "U+DF49", "U+DF4A", "U+DF4B", "U+DF4C", "U+DF4D",
      "U+DF4E", "U+DF4F", "U+DF50", "U+DF82", "U+DF83", "U+DF84", "U+DF85" })
  \cup
  ({"U+D804"} \X {
      "U+DC01", "U+DC38", "U+DC39", "U+DC3A", "U+DC3B", "U+DC3C", "U+DC3D",
      "U+DC3E", "U+DC3F", "U+DC40", "U+DC41", "U+DC42", "U+DC43", "U+DC44",
      "U+DC45", "U+DC46", "U+DC70", "U+DC73", "U+DC74", "U+DC7F", "U+DC80",
      "U+DC81", "U+DCB3", "U+DCB4", "U+DCB5", "U+DCB6", "U+DCB9", "U+DCBA",
      "U+DCBD", "U+DCC2", "U+DCCD", "U+DD00", "U+DD01", "U+DD02", "U+DD27",
      "U+DD28", "U+DD29", "U+DD2A", "U+DD2B", "U+DD2D", "U+DD2E", "U+DD2F",
      "U+DD30", "U+DD31", "U+DD32", "U+DD33", "U+DD34", "U+DD73", "U+DD80",
      "U+DD81", "U+DDB6", "U+DDB7", "U+DDB8", "U+DDB9", "U+DDBA", "U+DDBB",
      "U+DDBC", "U+DDBD", "U+DDBE", "U+DDC9", "U+DDCA", "U+DDCB", "U+DDCC",
      "U+DDCF", "U+DE2F", "U+DE30", "U+DE31", "U+DE34", "U+DE36", "U+DE37",
      "U+DE3E", "U+DE41", "U+DEDF", "U+DEE3", "U+DEE4", "U+DEE5", "U+DEE6",
      "U+DEE7", "U+DEE8", "U+DEE9", "U+DEEA", "U+DF00", "U+DF01", "U+DF3B",
      "U+DF3C", "U+DF40", "U+DF66", "U+DF67", "U+DF68", "U+DF69", "U+DF6A",
      "U+DF6B", "U+DF6C", "U+DF70", "U+DF71", "U+DF72", "U+DF73", "U+DF74",
      "U+DFBB", "U+DFBC", "U+DFBD", "U+DFBE", "U+DFBF", "U+DFC0", "U+DFCE",
      "U+DFD0", "U+DFD2", "U+DFE1", "U+DFE2" })
  \cup
  ({"U+D805"} \X {
      "U+DC38", "U+DC39", "U+DC3A", "U+DC3B", "U+DC3C", "U+DC3D", "U+DC3E",
      "U+DC3F", "U+DC42", "U+DC43", "U+DC44", "U+DC46", "U+DC5E", "U+DCB3",
      "U+DCB4", "U+DCB5", "U+DCB6", "U+DCB7", "U+DCB8", "U+DCBA", "U+DCBF",
      "U+DCC0", "U+DCC2", "U+DCC3", "U+DDB2", "U+DDB3", "U+DDB4", "U+DDB5",
      "U+DDBC", "U+DDBD", "U+DDBF", "U+DDC0", "U+DDDC", "U+DDDD", "U+DE33",
      "U+DE34", "U+DE35", "U+DE36", "U+DE37", "U+DE38", "U+DE39", "U+DE3A",
      "U+DE3D", "U+DE3F", "U+DE40", "U+DEAB", "U+DEAD", "U+DEB0", "U+DEB1",
      "U+DEB2", "U+DEB3", "U+DEB4", "U+DEB5", "U+DEB7", "U+DF1D", "U+DF1F",
      "U+DF22", "U+DF23", "U+DF24", "U+DF25", "U+DF27", "U+DF28", "U+DF29",
      "U+DF2A", "U+DF2B" })
  \cup
  ({"U+D806"} \X {
      "U+DC2F", "U+DC30", "U+DC31", "U+DC32", "U+DC33", "U+DC34", "U+DC35",
      "U+DC36", "U+DC37", "U+DC39", "U+DC3A", "U+DD3B", "U+DD3C", "U+DD3E",
      "U+DD43", "U+DDD4", "U+DDD5", "U+DDD6", "U+DDD7", "U+DDDA", "U+DDDB",
      "U+DDE0", "U+DE01", "U+DE02", "U+DE03", "U+DE04", "U+DE05", "U+DE06",
      "U+DE07", "U+DE08", "U+DE09", "U+DE0A", "U+DE33", "U+DE34", "U+DE35",
      "U+DE36", "U+DE37", "U+DE38", "U+DE3B", "U+DE3C", "U+DE3D", "U+DE3E",
      "U+DE47", "U+DE51", "U+DE52", "U+DE53", "U+DE54", "U+DE55", "U+DE56",
      "U+DE59", "U+DE5A", "U+DE5B", "U+DE8A", "U+DE8B", "U+DE8C", "U+DE8D",
      "U+DE8E", "U+DE8F", "U+DE90", "U+DE91", "U+DE92", "U+DE93", "U+DE94",
      "U+DE95", "U+DE96", "U+DE98", "U+DE99", "U+DF60", "U+DF62", "U+DF63",
      "U+DF64", "U+DF66" })
  \cup
  ({"U+D807"} \X {
      "U+DC30", "U+DC31", "U+DC32", "U+DC33", "U+DC34", "U+DC35", "U+DC36",
      "U+DC38", "U+DC39", "U+DC3A", "U+DC3B", "U+DC3C", "U+DC3D", "U+DC3F",
      "U+DC92", "U+DC93", "U+DC94", "U+DC95", "U+DC96", "U+DC97", "U+DC98",
      "U+DC99", "U+DC9A", "U+DC9B", "U+DC9C", "U+DC9D", "U+DC9E", "U+DC9F",
      "U+DCA0", "U+DCA1", "U+DCA2", "U+DCA3", "U+DCA4", "U+DCA5", "U+DCA6",
      "U+DCA7", "U+DCAA", "U+DCAB", "U+DCAC", "U+DCAD", "U+DCAE", "U+DCAF",
      "U+DCB0", "U+DCB2", "U+DCB3", "U+DCB5", "U+DCB6", "U+DD31", "U+DD32",
      "U+DD33", "U+DD34", "U+DD35", "U+DD36", "U+DD3A", "U+DD3C", "U+DD3D",
      "U+DD3F", "U+DD40", "U+DD41", "U+DD42", "U+DD43", "U+DD44", "U+DD45",
      "U+DD47", "U+DD90", "U+DD91", "U+DD95", "U+DD97", "U+DDD9", "U+DEF3",
      "U+DEF4", "U+DF00", "U+DF01", "U+DF36", "U+DF37", "U+DF38", "U+DF39",
      "U+DF3A", "U+DF40", "U+DF42", "U+DF5A" })
  \cup
  ({"U+D80D"} \X {
      "U+DC30", "U+DC31", "U+DC32", "U+DC33", "U+DC34", "U+DC35", "U+DC36",
      "U+DC37", "U+DC38", "U+DC39", "U+DC3A", "U+DC3B", "U+DC3C", "U+DC3D",
      "U+DC3E", "U+DC3F", "U+DC40", "U+DC47", "U+DC48", "U+DC49", "U+DC4A",
      "U+DC4B", "U+DC4C", "U+DC4D", "U+DC4E", "U+DC4F", "U+DC50", "U+DC51",
      "U+DC52", "U+DC53", "U+DC54", "U+DC55" })
  \cup
  ({"U+D818"} \X {
      "U+DD1E", "U+DD1F", "U+DD20", "U+DD21", "U+DD22", "U+DD23", "U+DD24",
      "U+DD25", "U+DD26", "U+DD27", "U+DD28", "U+DD29", "U+DD2D", "U+DD2E",
      "U+DD2F" })
  \cup
  ({"U+D81A"} \X {
      "U+DEF0", "U+DEF1", "U+DEF2", "U+DEF3", "U+DEF4", "U+DF30", "U+DF31",
      "U+DF32", "U+DF33", "U+DF34", "U+DF35", "U+DF36", "U+DF40", "U+DF41",
      "U+DF42", "U+DF43" })
  \cup
  ({"U+D81B"} \X {
      "U+DD40", "U+DD41", "U+DD42", "U+DD6B", "U+DD6C", "U+DF4F", "U+DF8F",
      "U+DF90", "U+DF91", "U+DF92", "U+DF93", "U+DF94", "U+DF95", "U+DF96",
      "U+DF97", "U+DF98", "U+DF99", "U+DF9A", "U+DF9B", "U+DF9C", "U+DF9D",
      "U+DF9E", "U+DF9F", "U+DFE0", "U+DFE1", "U+DFE3", "U+DFE4", "U+DFF2",
      "U+DFF3" })
  \cup
  ({"U+D82B"} \X {
      "U+DFF0", "U+DFF1", "U+DFF2", "U+DFF3", "U+DFF5", "U+DFF6", "U+DFF7",
      "U+DFF8", "U+DFF9", "U+DFFA", "U+DFFB", "U+DFFD", "U+DFFE" })
  \cup
  ({"U+D82F"} \X {
      "U+DC9D", "U+DC9E", "U+DCA0", "U+DCA1", "U+DCA2", "U+DCA3" })
  \cup
  ({"U+D833"} \X {
      "U+DF00", "U+DF01", "U+DF02", "U+DF03", "U+DF04", "U+DF05", "U+DF06",
      "U+DF07", "U+DF08", "U+DF09", "U+DF0A", "U+DF0B", "U+DF0C", "U+DF0D",
      "U+DF0E", "U+DF0F", "U+DF10", "U+DF11", "U+DF12", "U+DF13", "U+DF14",
      "U+DF15", "U+DF16", "U+DF17", "U+DF18", "U+DF19", "U+DF1A", "U+DF1B",
      "U+DF1C", "U+DF1D", "U+DF1E", "U+DF1F", "U+DF20", "U+DF21", "U+DF22",
      "U+DF23", "U+DF24", "U+DF25", "U+DF26", "U+DF27", "U+DF28", "U+DF29",
      "U+DF2A", "U+DF2B", "U+DF2C", "U+DF2D", "U+DF30", "U+DF31", "U+DF32",
      "U+DF33", "U+DF34", "U+DF35", "U+DF36", "U+DF37", "U+DF38", "U+DF39",
      "U+DF3A", "U+DF3B", "U+DF3C", "U+DF3D", "U+DF3E", "U+DF3F", "U+DF40",
      "U+DF41", "U+DF42", "U+DF43", "U+DF44", "U+DF45", "U+DF46" })
  \cup
  ({"U+D834"} \X {
      "U+DD67", "U+DD68", "U+DD69", "U+DD73", "U+DD74", "U+DD75", "U+DD76",
      "U+DD77", "U+DD78", "U+DD79", "U+DD7A", "U+DD7B", "U+DD7C", "U+DD7D",
      "U+DD7E", "U+DD7F", "U+DD80", "U+DD81", "U+DD82", "U+DD85", "U+DD86",
      "U+DD87", "U+DD88", "U+DD89", "U+DD8A", "U+DD8B", "U+DDAA", "U+DDAB",
      "U+DDAC", "U+DDAD", "U+DE42", "U+DE43", "U+DE44" })
  \cup
  ({"U+D836"} \X {
      "U+DE00", "U+DE01", "U+DE02", "U+DE03", "U+DE04", "U+DE05", "U+DE06",
      "U+DE07", "U+DE08", "U+DE09", "U+DE0A", "U+DE0B", "U+DE0C", "U+DE0D",
      "U+DE0E", "U+DE0F", "U+DE10", "U+DE11", "U+DE12", "U+DE13", "U+DE14",
      "U+DE15", "U+DE16", "U+DE17", "U+DE18", "U+DE19", "U+DE1A", "U+DE1B",
      "U+DE1C", "U+DE1D", "U+DE1E", "U+DE1F", "U+DE20", "U+DE21", "U+DE22",
      "U+DE23", "U+DE24", "U+DE25", "U+DE26", "U+DE27", "U+DE28", "U+DE29",
      "U+DE2A", "U+DE2B", "U+DE2C", "U+DE2D", "U+DE2E", "U+DE2F", "U+DE30",
      "U+DE31", "U+DE32", "U+DE33", "U+DE34", "U+DE35", "U+DE36", "U+DE3B",
      "U+DE3C", "U+DE3D", "U+DE3E", "U+DE3F", "U+DE40", "U+DE41", "U+DE42",
      "U+DE43", "U+DE44", "U+DE45", "U+DE46", "U+DE47", "U+DE48", "U+DE49",
      "U+DE4A", "U+DE4B", "U+DE4C", "U+DE4D", "U+DE4E", "U+DE4F", "U+DE50",
      "U+DE51", "U+DE52", "U+DE53", "U+DE54", "U+DE55", "U+DE56", "U+DE57",
      "U+DE58", "U+DE59", "U+DE5A", "U+DE5B", "U+DE5C", "U+DE5D", "U+DE5E",
      "U+DE5F", "U+DE60", "U+DE61", "U+DE62", "U+DE63", "U+DE64", "U+DE65",
      "U+DE66", "U+DE67", "U+DE68", "U+DE69", "U+DE6A", "U+DE6B", "U+DE6C",
      "U+DE75", "U+DE84", "U+DE9B", "U+DE9C", "U+DE9D", "U+DE9E", "U+DE9F",
      "U+DEA1", "U+DEA2", "U+DEA3", "U+DEA4", "U+DEA5", "U+DEA6", "U+DEA7",
      "U+DEA8", "U+DEA9", "U+DEAA", "U+DEAB", "U+DEAC", "U+DEAD", "U+DEAE",
      "U+DEAF" })
  \cup
  ({"U+D838"} \X {
      "U+DC00", "U+DC01", "U+DC02", "U+DC03", "U+DC04", "U+DC05", "U+DC06",
      "U+DC08", "U+DC09", "U+DC0A", "U+DC0B", "U+DC0C", "U+DC0D", "U+DC0E",
      "U+DC0F", "U+DC10", "U+DC11", "U+DC12", "U+DC13", "U+DC14", "U+DC15",
      "U+DC16", "U+DC17", "U+DC18", "U+DC1B", "U+DC1C", "U+DC1D", "U+DC1E",
      "U+DC1F", "U+DC20", "U+DC21", "U+DC23", "U+DC24", "U+DC26", "U+DC27",
      "U+DC28", "U+DC29", "U+DC2A", "U+DC30", "U+DC31", "U+DC32", "U+DC33",
      "U+DC34", "U+DC35", "U+DC36", "U+DC37", "U+DC38", "U+DC39", "U+DC3A",
      "U+DC3B", "U+DC3C", "U+DC3D", "U+DC3E", "U+DC3F", "U+DC40", "U+DC41",
      "U+DC42", "U+DC43", "U+DC44", "U+DC45", "U+DC46", "U+DC47", "U+DC48",
      "U+DC49", "U+DC4A", "U+DC4B", "U+DC4C", "U+DC4D", "U+DC4E", "U+DC4F",
      "U+DC50", "U+DC51", "U+DC52", "U+DC53", "U+DC54", "U+DC55", "U+DC56",
      "U+DC57", "U+DC58", "U+DC59", "U+DC5A", "U+DC5B", "U+DC5C", "U+DC5D",
      "U+DC5E", "U+DC5F", "U+DC60", "U+DC61", "U+DC62", "U+DC63", "U+DC64",
      "U+DC65", "U+DC66", "U+DC67", "U+DC68", "U+DC69", "U+DC6A", "U+DC6B",
      "U+DC6C", "U+DC6D", "U+DC8F", "U+DD30", "U+DD31", "U+DD32", "U+DD33",
      "U+DD34", "U+DD35", "U+DD36", "U+DD37", "U+DD38", "U+DD39", "U+DD3A",
      "U+DD3B", "U+DD3C", "U+DD3D", "U+DEAE", "U+DEEC", "U+DEED", "U+DEEE",
      "U+DEEF" })
  \cup
  ({"U+D839"} \X {
      "U+DCEB", "U+DCEC", "U+DCED", "U+DCEE", "U+DCEF", "U+DDEE", "U+DDEF",
      "U+DEE3", "U+DEE6", "U+DEEE", "U+DEEF", "U+DEF5", "U+DEFF" })
  \cup
  ({"U+D83A"} \X {
      "U+DCD0", "U+DCD1", "U+DCD2", "U+DCD3", "U+DCD4", "U+DCD5", "U+DCD6",
      "U+DD44", "U+DD45", "U+DD46", "U+DD47", "U+DD48", "U+DD49", "U+DD4A",
      "U+DD4B" })
  \cup
  ({"U+D83C"} \X {
      "U+DFFB", "U+DFFC", "U+DFFD", "U+DFFE", "U+DFFF" })
  \cup
  ({"U+DB40"} \X {
      "U+DC01", "U+DC20", "U+DC21", "U+DC22", "U+DC23", "U+DC24", "U+DC25",
      "U+DC26", "U+DC27", "U+DC28", "U+DC29", "U+DC2A", "U+DC2B", "U+DC2C",
      "U+DC2D", "U+DC2E", "U+DC2F", "U+DC30", "U+DC31", "U+DC32", "U+DC33",
      "U+DC34", "U+DC35", "U+DC36", "U+DC37", "U+DC38", "U+DC39", "U+DC3A",
      "U+DC3B", "U+DC3C", "U+DC3D", "U+DC3E", "U+DC3F", "U+DC40", "U+DC41",
      "U+DC42", "U+DC43", "U+DC44", "U+DC45", "U+DC46", "U+DC47", "U+DC48",
      "U+DC49", "U+DC4A", "U+DC4B", "U+DC4C", "U+DC4D", "U+DC4E", "U+DC4F",
      "U+DC50", "U+DC51", "U+DC52", "U+DC53", "U+DC54", "U+DC55", "U+DC56",
      "U+DC57", "U+DC58", "U+DC59", "U+DC5A", "U+DC5B", "U+DC5C", "U+DC5D",
      "U+DC5E", "U+DC5F", "U+DC60", "U+DC61", "U+DC62", "U+DC63", "U+DC64",
      "U+DC65", "U+DC66", "U+DC67", "U+DC68", "U+DC69", "U+DC6A", "U+DC6B",
      "U+DC6C", "U+DC6D", "U+DC6E", "U+DC6F", "U+DC70", "U+DC71", "U+DC72",
      "U+DC73", "U+DC74", "U+DC75", "U+DC76", "U+DC77", "U+DC78", "U+DC79",
      "U+DC7A", "U+DC7B", "U+DC7C", "U+DC7D", "U+DC7E", "U+DC7F", "U+DD00",
      "U+DD01", "U+DD02", "U+DD03", "U+DD04", "U+DD05", "U+DD06", "U+DD07",
      "U+DD08", "U+DD09", "U+DD0A", "U+DD0B", "U+DD0C", "U+DD0D", "U+DD0E",
      "U+DD0F", "U+DD10", "U+DD11", "U+DD12", "U+DD13", "U+DD14", "U+DD15",
      "U+DD16", "U+DD17", "U+DD18", "U+DD19", "U+DD1A", "U+DD1B", "U+DD1C",
      "U+DD1D", "U+DD1E", "U+DD1F", "U+DD20", "U+DD21", "U+DD22", "U+DD23",
      "U+DD24", "U+DD25", "U+DD26", "U+DD27", "U+DD28", "U+DD29", "U+DD2A",
      "U+DD2B", "U+DD2C", "U+DD2D", "U+DD2E", "U+DD2F", "U+DD30", "U+DD31",
      "U+DD32", "U+DD33", "U+DD34", "U+DD35", "U+DD36", "U+DD37", "U+DD38",
      "U+DD39", "U+DD3A", "U+DD3B", "U+DD3C", "U+DD3D", "U+DD3E", "U+DD3F",
      "U+DD40", "U+DD41", "U+DD42", "U+DD43", "U+DD44", "U+DD45", "U+DD46",
      "U+DD47", "U+DD48", "U+DD49", "U+DD4A", "U+DD4B", "U+DD4C", "U+DD4D",
      "U+DD4E", "U+DD4F", "U+DD50", "U+DD51", "U+DD52", "U+DD53", "U+DD54",
      "U+DD55", "U+DD56", "U+DD57", "U+DD58", "U+DD59", "U+DD5A", "U+DD5B",
      "U+DD5C", "U+DD5D", "U+DD5E", "U+DD5F", "U+DD60", "U+DD61", "U+DD62",
      "U+DD63", "U+DD64", "U+DD65", "U+DD66", "U+DD67", "U+DD68", "U+DD69",
      "U+DD6A", "U+DD6B", "U+DD6C", "U+DD6D", "U+DD6E", "U+DD6F", "U+DD70",
      "U+DD71", "U+DD72", "U+DD73", "U+DD74", "U+DD75", "U+DD76", "U+DD77",
      "U+DD78", "U+DD79", "U+DD7A", "U+DD7B", "U+DD7C", "U+DD7D", "U+DD7E",
      "U+DD7F", "U+DD80", "U+DD81", "U+DD82", "U+DD83", "U+DD84", "U+DD85",
      "U+DD86", "U+DD87", "U+DD88", "U+DD89", "U+DD8A", "U+DD8B", "U+DD8C",
      "U+DD8D", "U+DD8E", "U+DD8F", "U+DD90", "U+DD91", "U+DD92", "U+DD93",
      "U+DD94", "U+DD95", "U+DD96", "U+DD97", "U+DD98", "U+DD99", "U+DD9A",
      "U+DD9B", "U+DD9C", "U+DD9D", "U+DD9E", "U+DD9F", "U+DDA0", "U+DDA1",
      "U+DDA2", "U+DDA3", "U+DDA4", "U+DDA5", "U+DDA6", "U+DDA7", "U+DDA8",
      "U+DDA9", "U+DDAA", "U+DDAB", "U+DDAC", "U+DDAD", "U+DDAE", "U+DDAF",
      "U+DDB0", "U+DDB1", "U+DDB2", "U+DDB3", "U+DDB4", "U+DDB5", "U+DDB6",
      "U+DDB7", "U+DDB8", "U+DDB9", "U+DDBA", "U+DDBB", "U+DDBC", "U+DDBD",
      "U+DDBE", "U+DDBF", "U+DDC0", "U+DDC1", "U+DDC2", "U+DDC3", "U+DDC4",
      "U+DDC5", "U+DDC6", "U+DDC7", "U+DDC8", "U+DDC9", "U+DDCA", "U+DDCB",
      "U+DDCC", "U+DDCD", "U+DDCE", "U+DDCF", "U+DDD0", "U+DDD1", "U+DDD2",
      "U+DDD3", "U+DDD4", "U+DDD5", "U+DDD6", "U+DDD7", "U+DDD8", "U+DDD9",
      "U+DDDA", "U+DDDB", "U+DDDC", "U+DDDD", "U+DDDE", "U+DDDF", "U+DDE0",
      "U+DDE1", "U+DDE2", "U+DDE3", "U+DDE4", "U+DDE5", "U+DDE6", "U+DDE7",
      "U+DDE8", "U+DDE9", "U+DDEA", "U+DDEB", "U+DDEC", "U+DDED", "U+DDEE",
      "U+DDEF" })

\* the unit is written as itself: it is below U+0080
Plain(ch) == Len(ch) = 1

\* String.prototype.toLowerCase on a text of the one code unit ch, which
\* gives one code unit, except for U+0130 (SpecialCasing.txt)
LowerChar(ch) ==
  IF Plain(ch)
    THEN IF \E p \in UpperLower : p[1] = ch
           THEN <<(CHOOSE p \in UpperLower : p[1] = ch)[2]>>
           ELSE <<ch>>
  ELSE IF ch = "U+0130" THEN <<"i", "U+0307">>
  ELSE IF \E p \in LowerCaseBMP : p[1] = ch
    THEN <<(CHOOSE p \in LowerCaseBMP : p[1] = ch)[2]>>
    ELSE <<ch>>

\* units i-1 and i of s are the surrogates of a code point in the set
PairIn(s, i, set) ==
  i > 1 /\ ~Plain(s[i]) /\ ~Plain(s[i - 1]) /\ <<s[i - 1], s[i]>> \in set

\* how the scan for Final_Sigma sees unit i of s: "skip" for a
\* case-ignorable code point and for the high surrogate of a code point
\* that its low surrogate stands for, "cased" for a cased letter
CaseClass(s, i) ==
  IF PairIn(s, i, CasedAstral) THEN "cased"
  ELSE IF PairIn(s, i, CaseIgnorableAstral) THEN "skip"
  ELSE IF i < Len(s) /\ PairIn(s, i + 1, CasedAstral \cup CaseIgnorableAstral)
    THEN "skip"
  ELSE IF s[i] \in CaseIgnorableBMP THEN "skip"
  ELSE IF s[i] \in CasedBMP THEN "cased"
  ELSE "other"

\* the condition Final_Sigma of SpecialCasing.txt for the sigma at i: a
\* cased letter comes before it and none after it, case-ignorable code
\* points aside
FinalSigma(s, i) ==
  LET before == { j \in 1..(i - 1) : CaseClass(s, j) # "skip" }
      after  == { j \in (i + 1)..Len(s) : CaseClass(s, j) # "skip" }
  IN  /\ before # {}
      /\ CaseClass(s, CHOOSE j \in before : \A k \in before : k <= j) = "cased"
      /\ \/ after = {}
         \/ CaseClass(s, CHOOSE j \in after : \A k \in after : j <= k) # "cased"

\* the units that unit i of s lower-cases to
LowerAt(s, i) ==
  IF Plain(s[i]) THEN LowerChar(s[i])
  ELSE IF i > 1 /\ \E p \in LowerCaseAstral :
                     p[1] = s[i - 1] /\ p[2][1] = s[i]
    THEN <<(CHOOSE p \in LowerCaseAstral :
              p[1] = s[i - 1] /\ p[2][1] = s[i])[2][2]>>
  ELSE IF s[i] = "U+03A3"
    THEN IF FinalSigma(s, i) THEN <<"U+03C2">> ELSE <<"U+03C3">>
  ELSE LowerChar(s[i])

\* the texts of a sequence, one after the other
RECURSIVE Concat(_)
Concat(ts) == IF ts = <<>> THEN <<>> ELSE Head(ts) \o Concat(Tail(ts))

\* String.prototype.toLowerCase
ToLowerCase(s) == Concat([i \in 1..Len(s) |-> LowerAt(s, i)])

\* a search that finds no occurrence of the empty string
Includes_NoEmptyMatch(hay, needle) ==
  /\ needle # <<>>
  /\ \E i \in 1..(Len(hay) - Len(needle) + 1) :
       SubSeq(hay, i, i + Len(needle) - 1) = needle

\* String.prototype.includes: needle occurs at some offset of hay
Includes(hay, needle) ==
  \E k \in 0..(Len(hay) - Len(needle)) :
     SubSeq(hay, k + 1, k + Len(needle)) = needle

(***************************************************************************)
(* Static data (constants.ts)                                              *)
(***************************************************************************)
\* the list with its last record placed in Ohio: six states in all
MOCK_DATA_SixStates ==
  << [date |-> <<"J","a","n"," ","8",","," ","2","0","2","5">>,
      state |-> <<"I","l","l","i","n","o","i","s">>,
      city_county |-> <<"C","h","i","c","a","g","o">>,
      address |-> <<"1","2","0","0"," ","B","l","o","c","k"," ","o","f"," ","S"," ","W","e","s","t","e","r","n"," ","A","v","e">>,
      killed |-> 1, injured |-> 3,
      source_link |-> <<"/","i","n","c","i","d","e","n","t","/","1","2","3","4","5","6">>],
     [date |-> <<"J","a","n"," ","8",","," ","2","0","2","5">>,
      state |-> <<"T","e","x","a","s">>,
      city_county |-> <<"D","a","l","l","a","s">>,
      address |-> <<"R","o","s","s"," ","A","v","e">>,
      killed |-> 0, injured |-> 4,
      source_link |-> <<"/","i","n","c","i","d","e","n","t","/","1","2","3","4","5","9">>],
     [date |-> <<"J","a","n"," ","7",","," ","2","0","2","5">>,
      state |-> <<"C","a","l","i","f","o","r","n","i","a">>,
      city_county |-> <<"L","o","s"," ","A","n","g","e","l","e","s">>,
      address |-> <<"W","i","l","s","h","i","r","e"," ","B","l","v","d">>,
      killed |-> 0, injured |-> 1,
      source_link |-> <<"/","i","n","c","i","d","e","n","t","/","1","2","3","4","5","7">>],
     [date |-> <<"J","a","n"," ","7",","," ","2","0","2","5">>,
      state |-> <<"T","e","x","a","s">>,
      city_county |-> <<"H","o","u","s","t","o","n">>,
      address |-> <<"M","a","i","n"," ","S","t","r","e","e","t">>,
      killed |-> 2, injured |-> 0,
      source_link |-> <<"/","i","n","c","i","d","e","n","t","/","1","2","3","4","5","8">>],
     [date |-> <<"J","a","n"," ","6",","," ","2","0","2","5">>,
      state |-> <<"F","l","o","r","i","d","a">>,
      city_county |-> <<"M","i","a","m","i">>,
      address |-> <<"B","r","i","c","k","e","l","l"," ","A","v","e">>,
      killed |-> 1, injured |-> 1,
      source_link |-> <<"/","i","n","c","i","d","e","n","t","/","1","2","3","4","6","0">>],
     [date |-> <<"J","a","n"," ","6",","," ","2","0","2","5">>,
      state |-> <<"I","l","l","i","n","o","i","s">>,
      city_county |-> <<"R","o","c","k","f","o","r","d">>,
      address |-> <<"S","t","a","t","e"," ","S","t">>,
      killed |-> 0, injured |-> 2,
      source_link |-> <<"/","i","n","c","i","d","e","n","t","/","1","2","3","4","6","1">>],
     [date |-> <<"J","a","n"," ","5",","," ","2","0","2","5">>,
      state |-> <<"C","a","l","i","f","o","r","n","i","a">>,
      city_county |-> <<"O","a","k","l","a","n","d">>,
      address |-> <<"B","r","o","a","d","w","a","y">>,
      killed |-> 3, injured |-> 0,
      source_link |-> <<"/","i","n","c","i","d","e","n","t","/","1","2","3","4","6","2">>],
     [date |-> <<"J","a","n"," ","5",","," ","2","0","2","5">>,
      state |-> <<"G","e","o","r","g","i","a">>,
      city_county |-> <<"A","t","l","a","n","t","a">>,
      address |-> <<"P","e","a","c","h","t","r","e","e"," ","S","t">>,
      killed |-> 1, injured |-> 5,
      source_link |-> <<"/","i","n","c","i","d","e","n","t","/","1","2","3","4","6","3">>],
     [date |-> <<"J","a","n"," ","4",","," ","2","0","2","5">>,
      state |-> <<"O","h","i","o">>,
      city_county |-> <<"C","l","e","v","e","l","a","n","d">>,
      address |-> <<"E","u","c","l","i","d"," ","A","v","e">>,
      killed |-> 0, injured |-> 1,
      source_link |-> <<"/","i","n","c","i","d","e","n","t","/","1","2","3","4","6","4">>],
     [date |-> <<"J","a","n"," ","4",","," ","2","0","2","5">>,
      state |-> <<"O","h","i","o">>,
      city_county |-> <<"P","h","i","l","a","d","e","l","p","h","i","a">>,
      address |-> <<"B","r","o","a","d"," ","S","t">>,
      killed |-> 2, injured |-> 2,
      source_link |-> <<"/","i","n","c","i","d","e","n","t","/","1","2","3","4","6","5">>] >>

MOCK_DATA ==
  << [date |-> <<"J","a","n"," ","8",","," ","2","0","2","5">>,
      state |-> <<"I","l","l","i","n","o","i","s">>,
      city_county |-> <<"C","h","i","c","a","g","o">>,
      address |-> <<"1","2","0","0"," ","B","l","o","c","k"," ","o","f"," ","S"," ","W","e","s","t","e","r","n"," ","A","v","e">>,
      killed |-> 1, injured |-> 3,
      source_link |-> <<"/","i","n","c","i","d","e","n","t","/","1","2","3","4","5","6">>],
     [date |-> <<"J","a","n"," ","8",","," ","2","0","2","5">>,
      state |-> <<"T","e","x","a","s">>,
      city_county |-> <<"D","a","l","l","a","s">>,
      address |-> <<"R","o","s","s"," ","A","v","e">>,
      killed |-> 0, injured |-> 4,
      source_link |-> <<"/","i","n","c","i","d","e","n","t","/","1","2","3","4","5","9">>],
     [date |-> <<"J","a","n"," ","7",","," ","2","0","2","5">>,
      state |-> <<"C","a","l","i","f","o","r","n","i","a">>,
      city_county |-> <<"L","o","s"," ","A","n","g","e","l","e","s">>,
      address |-> <<"W","i","l","s","h","i","r","e"," ","B","l","v","d">>,
      killed |-> 0, injured |-> 1,
      source_link |-> <<"/","i","n","c","i","d","e","n","t","/","1","2","3","4","5","7">>],
     [date |-> <<"J","a","n"," ","7",","," ","2","0","2","5">>,
      state |-> <<"T","e","x","a","s">>,
      city_county |-> <<"H","o","u","s","t","o","n">>,
      address |-> <<"M","a","i","n"," ","S","t","r","e","e","t">>,
      killed |-> 2, injured |-> 0,
      source_link |-> <<"/","i","n","c","i","d","e","n","t","/","1","2","3","4","5","8">>],
     [date |-> <<"J","a","n"," ","6",","," ","2","0","2","5">>,
      state |-> <<"F","l","o","r","i","d","a">>,
      city_county |-> <<"M","i","a","m","i">>,
      address |-> <<"B","r","i","c","k","e","l","l"," ","A","v","e">>,
      killed |-> 1, injured |-> 1,
      source_link |-> <<"/","i","n","c","i","d","e","n","t","/","1","2","3","4","6","0">>],
     [date |-> <<"J","a","n"," ","6",","," ","2","0","2","5">>,
      state |-> <<"I","l","l","i","n","o","i","s">>,
      city_county |-> <<"R","o","c","k","f","o","r","d">>,
      address |-> <<"S","t","a","t","e"," ","S","t">>,
      killed |-> 0, injured |-> 2,
      source_link |-> <<"/","i","n","c","i","d","e","n","t","/","1","2","3","4","6","1">>],
     [date |-> <<"J","a","n"," ","5",","," ","2","0","2","5">>,
      state |-> <<"C","a","l","i","f","o","r","n","i","a">>,
      city_county |-> <<"O","a","k","l","a","n","d">>,
      address |-> <<"B","r","o","a","d","w","a","y">>,
      killed |-> 3, injured |-> 0,
      source_link |-> <<"/","i","n","c","i","d","e","n","t","/","1","2","3","4","6","2">>],
     [date |-> <<"J","a","n"," ","5",","," ","2","0","2","5">>,
      state |-> <<"G","e","o","r","g","i","a">>,
      city_county |-> <<"A","t","l","a","n","t","a">>,
      address |-> <<"P","e","a","c","h","t","r","e","e"," ","S","t">>,
      killed |-> 1, injured |-> 5,
      source_link |-> <<"/","i","n","c","i","d","e","n","t","/","1","2","3","4","6","3">>],
     [date |-> <<"J","a","n"," ","4",","," ","2","0","2","5">>,
      state |-> <<"O","h","i","o">>,
      city_county |-> <<"C","l","e","v","e","l","a","n","d">>,
      address |-> <<"E","u","c","l","i","d"," ","A","v","e">>,
      killed |-> 0, injured |-> 1,
      source_link |-> <<"/","i","n","c","i","d","e","n","t","/","1","2","3","4","6","4">>],
     [date |-> <<"J","a","n"," ","4",","," ","2","0","2","5">>,
      state |-> <<"P","e","n","n","s","y","l","v","a","n","i","a">>,
      city_county |-> <<"P","h","i","l","a","d","e","l","p","h","i","a">>,
      address |-> <<"B","r","o","a","d"," ","S","t">>,
      killed |-> 2, injured |-> 2,
      source_link |-> <<"/","i","n","c","i","d","e","n","t","/","1","2","3","4","6","5">>] >>

(***************************************************************************)
(* The 10-year table (constants.ts) and its export, downloadSummaryCSV     *)
(***************************************************************************)
\* an element of a category's array: a number, or a string
Num(n) == [isNum |-> TRUE, num |-> n, str |-> <<>>]
Str(s) == [isNum |-> FALSE, num |-> 0, str |-> s]

\* a table one of whose categories lacks its last cell
GVA_10_YEAR_REVIEW_Ragged ==
  [years |-> <<2015, 2016, 2017, 2018, 2019, 2020, 2021, 2022, 2023, 2024>>,
   categories |-> <<
     [cat |-> <<"M","a","s","s"," ","M","u","r","d","e","r">>,
      vals |-> <<Num(21), Num(25), Num(20), Num(19), Num(31), Num(21), Num(28), Num(36), Num(40), Num(30)>>],
     [cat |-> <<"D","e","f","e","n","s","i","v","e"," ","G","u","n"," ","U","s","e">>,
      vals |-> <<Num(1400), Num(1992), Num(2118), Num(1881), Num(1633), Num(1551), Num(1367), Num(1286), Num(1286)>>] >>]

\* categories is the list of Object.entries(categories), in insertion order
GVA_10_YEAR_REVIEW ==
  [years |-> <<2015, 2016, 2017, 2018, 2019, 2020, 2021, 2022, 2023, 2024>>,
   categories |-> <<
     [cat |-> <<"D","e","a","t","h","s"," ","(","W","i","l","l","f","u","l","/","A","c","c","i","d","e","n","t","a","l",")">>,
      vals |-> <<Num(13777), Num(15375), Num(15907), Num(15071), Num(15667), Num(19850), Num(21383), Num(20514), Num(19135), Num(16725)>>],
     [cat |-> <<"I","n","j","u","r","i","e","s"," ","(","W","i","l","l","f","u","l","/","A","c","c","i","d","e","n","t","a","l",")">>,
      vals |-> <<Num(26907), Num(30597), Num(31353), Num(28175), Num(30196), Num(39526), Num(40626), Num(38599), Num(36562), Num(31646)>>],
     [cat |-> <<"M","a","s","s"," ","S","h","o","o","t","i","n","g">>,
      vals |-> <<Num(332), Num(383), Num(347), Num(335), Num(414), Num(611), Num(689), Num(644), Num(659), Num(503)>>],
     [cat |-> <<"M","a","s","s"," ","M","u","r","d","e","r">>,
      vals |-> <<Num(21), Num(25), Num(20), Num(19), Num(31), Num(21), Num(28), Num(36), Num(40), Num(30)>>],
     [cat |-> <<"C","h","i","l","d","r","e","n"," ","[","0","-","1","1","]"," ","K","i","l","l","e","d">>,
      vals |-> <<Num(202), Num(231), Num(234), Num(198), Num(211), Num(303), Num(313), Num(314), Num(301), Num(250)>>],
     [cat |-> <<"C","h","i","l","d","r","e","n"," ","[","0","-","1","1","]"," ","I","n","j","u","r","e","d">>,
      vals |-> <<Num(477), Num(434), Num(487), Num(464), Num(485), Num(701), Num(745), Num(679), Num(644), Num(547)>>],
     [cat |-> <<"T","e","e","n","s"," ","[","1","2","-","1","7","]"," ","K","i","l","l","e","d">>,
      vals |-> <<Num(626), Num(727), Num(823), Num(736), Num(795), Num(1105), Num(1278), Num(1392), Num(1407), Num(1171)>>],
     [cat |-> <<"T","e","e","n","s"," ","[","1","2","-","1","7","]"," ","I","n","j","u","r","e","d">>,
      vals |-> <<Num(2074), Num(2429), Num(2439), Num(2142), Num(2340), Num(3067), Num(3403), Num(3821), Num(3896), Num(3239)>>],
     [cat |-> <<"O","I","S"," ","-"," ","O","f","f","i","c","e","r"," ","K","i","l","l","e","d">>,
      vals |-> <<Num(40), Num(68), Num(49), Num(55), Num(69), Num(59), Num(68), Num(72), Num(53), Num(75)>>],
     [cat |-> <<"O","I","S"," ","-"," ","O","f","f","i","c","e","r"," ","I","n","j","u","r","e","d">>,
      vals |-> <<Num(275), Num(297), Num(286), Num(270), Num(295), Num(346), Num(370), Num(341), Num(369), Num(322)>>],
     [cat |-> <<"O","I","S"," ","-"," ","S","u","s","p","e","c","t"," ","K","i","l","l","e","d">>,
      vals |-> <<Num(1007), Num(1152), Num(1232), Num(1273), Num(1290), Num(1299), Num(1326), Num(1397), Num(1444), Num(1445)>>],
     [cat |-> <<"D","e","f","e","n","s","i","v","e"," ","G","u","n"," ","U","s","e">>,
      vals |-> <<Num(1400), Num(1992), Num(2118), Num(1881), Num(1633), Num(1551), Num(1367), Num(1286), Num(1286), Num(1220)>>],
     [cat |-> <<"U","n","i","n","t","e","n","t","i","o","n","a","l"," ","S","h","o","o","t","i","n","g">>,
      vals |-> <<Num(1995), Num(2236), Num(2070), Num(1693), Num(1906), Num(2328), Num(2022), Num(1648), Num(1611), Num(1436)>>],
     [cat |-> <<"S","u","i","c","i","d","e"," ","b","y"," ","F","i","r","e","a","r","m"," ","(","C","D","C",")">>,
      vals |-> <<Num(22018), Num(22938), Num(23854), Num(24432), Num(23941), Num(24292), Num(26328), Num(27038), Num(27310), Str(<<"P","e","n","d","i","n","g">>)>>] >>]

(***************************************************************************)
(* IncidentFilter: the useMemo of the App                                  *)
(***************************************************************************)
\* a filter predicate that forgets to fold the case of the record's fields
MatchesItem_CaseSensitive(item, sf, cf) ==
  /\ Includes(item.state, ToLowerCase(sf))
  /\ Includes(item.city_county, ToLowerCase(cf))

\* the callback passed to MOCK_DATA.filter
MatchesItem(item, sf, cf) ==
  LET matchesState == Includes(ToLowerCase(item.state), ToLowerCase(sf))
      matchesCity  == Includes(ToLowerCase(item.city_county), ToLowerCase(cf))
  IN  matchesState /\ matchesCity

\* a filter that collects the matching records last to first
RECURSIVE FilterIncidents_Reversed(_, _, _)
FilterIncidents_Reversed(list, sf, cf) ==
  IF list = <<>> THEN <<>>
  ELSE FilterIncidents_Reversed(Tail(list), sf, cf)
         \o (IF MatchesItem(Head(list), sf, cf) THEN <<Head(list)>> ELSE <<>>)

\* Array.prototype.filter with that callback: one pass, in index order
RECURSIVE FilterIncidents(_, _, _)
FilterIncidents(list, sf, cf) ==
  IF list = <<>> THEN <<>>
  ELSE (IF MatchesItem(Head(list), sf, cf) THEN <<Head(list)>> ELSE <<>>)
         \o FilterIncidents(Tail(list), sf, cf)

(***************************************************************************)
(* CSVExporter: downloadFilteredIncidentsCSV                               *)
(***************************************************************************)
Digits == <<"0","1","2","3","4","5","6","7","8","9">>

\* Number.prototype.toString for a non-negative integer
RECURSIVE NumberToString(_)
NumberToString(n) ==
  IF n < 10 THEN <<Digits[n + 1]>>
  ELSE NumberToString(n \div 10) \o <<Digits[(n % 10) + 1]>>

\* Array.prototype.join on an array of strings
RECURSIVE Join(_, _)
Join(parts, sep) ==
  IF parts = <<>> THEN <<>>
  ELSE IF Len(parts) = 1 THEN parts[1]
  ELSE parts[1] \o sep \o Join(Tail(parts), sep)

\* the template literal `"${s}"`
Quoted(s) == <<"\"">> \o s \o <<"\"">>

\* one element of rows: the cells of a record, as join() will stringify them
IncidentRow(inc) ==
  << inc.date, Quoted(inc.state), Quoted(inc.city_county),
     Quoted(inc.address), NumberToString(inc.killed),
     NumberToString(inc.injured) >>

CsvHeaders == << <<"D","a","t","e">>,
                <<"S","t","a","t","e">>,
                <<"C","i","t","y","/","C","o","u","n","t","y">>,
                <<"A","d","d","r","e","s","s">>,
                <<"K","i","l","l","e","d">>,
                <<"I","n","j","u","r","e","d">> >>

\* csvContent of downloadFilteredIncidentsCSV
IncidentsCSV(list) ==
  LET rows == [i \in 1..Len(list) |-> IncidentRow(list[i])]
  IN  Join(CsvHeaders, <<",">>) \o <<"\n">>
        \o Join([i \in 1..Len(rows) |-> Join(rows[i], <<",">>)], <<"\n">>)

\* String.prototype.split(sep)[0]: the text before the first sep
RECURSIVE SplitFirst(_, _)
SplitFirst(s, sep) ==
  IF s = <<>> \/ Head(s) = sep THEN <<>>
  ELSE <<Head(s)>> \o SplitFirst(Tail(s), sep)

\* a.download of the incidents export; now is new Date().toISOString()
IncidentsFileName(now) ==
  <<"g","v","a","_","f","i","l","t","e","r","e","d","_","i","n","c","i","d","e","n","t","s","_">>
    \o SplitFirst(now, "T") \o <<".","c","s","v">>

\* values new Date().toISOString() takes in the runs explored
IsoNow == { <<"2","0","2","5","-","0","1","-","0","9","T","0","8",":","3","0",":","0","0",".","0","0","0","Z">> }

(***************************************************************************)
(* CSVExporter: downloadSummaryCSV                                         *)
(***************************************************************************)
\* a cell that is not a number is written as nothing
CellToString_PendingBlank(c) == IF c.isNum THEN NumberToString(c.num) ELSE <<>>

\* how Array.prototype.join stringifies one element of vals
CellToString(c) == IF c.isNum THEN NumberToString(c.num) ELSE c.str

\* a row whose category is written bare
SummaryRow_Bare(cat, vals) ==
  cat \o <<",">>
    \o Join([i \in 1..Len(vals) |-> CellToString(vals[i])], <<",">>) \o <<"\n">>

\* `"${cat}",${vals.join(',')}\n`
SummaryRow(cat, vals) ==
  Quoted(cat) \o <<",">>
    \o Join([i \in 1..Len(vals) |-> CellToString(vals[i])], <<",">>) \o <<"\n">>

\* the forEach over Object.entries(categories): csvContent += row
RECURSIVE SummaryRows(_)
SummaryRows(entries) ==
  IF entries = <<>> THEN <<>>
  ELSE SummaryRow(Head(entries).cat, Head(entries).vals)
         \o SummaryRows(Tail(entries))

\* csvContent of downloadSummaryCSV
SummaryCSV(review) ==
  LET years == Join([i \in 1..Len(review.years) |->
                       NumberToString(review.years[i])], <<",">>)
  IN  <<"C","a","t","e","g","o","r","y",",">> \o years \o <<"\n">>
        \o SummaryRows(review.categories)

\* a.download of the summary export
SummaryFileName ==
  <<"g","v","a","_","1","0","y","r","_","s","u","m","m","a","r","y",".","c","s","v">>

(***************************************************************************)
(* AIGatewayClient (services/gemini.ts)                                    *)
(*                                                                         *)
(* A call of one of the three async functions is a record of calls.  Its   *)
(* pc is "await" while its request is outstanding, "resolved" when its     *)
(* promise resolved with result, "rejected" when its promise rejected.     *)
(* requests counts the requests the call handed to the endpoint.  What     *)
(* the SDK and the endpoint do is the environment's choice: ai is the      *)
(* outcome of building the client and the session ("ok" or "throw"), resp  *)
(* the outcome of the request.  A call keeps both: ai is "unused" when     *)
(* the call built nothing, resp is <<>> until the request settled.         *)
(***************************************************************************)
Null == 0              \* currentChat = null

AiOutcomes == {"ok", "throw"}

NoText == <<>>         \* response.text is undefined

\* outcomes of a request: a throw, or a response with its optional parts
Responses ==
  { [ok |-> FALSE, text |-> NoText, chunks |-> <<>>],
    [ok |-> TRUE,  text |-> NoText, chunks |-> <<>>],
    [ok |-> TRUE,  text |-> <<"">>, chunks |-> << <<>> >>],
    [ok |-> TRUE,  text |-> <<"Generated text">>,
                   chunks |-> << <<"chunk">> >>] }

\* the two of them SpecHandlers draws: the throw and the full response
HandlerResponses ==
  { r \in Responses : ~r.ok \/ (r.chunks # <<>> /\ r.chunks[1] # <<>>) }

\* a ?? b: only undefined gives way to the default
TextOr_KeepEmpty(text, default) ==
  IF text = NoText THEN default ELSE text[1]

\* a || b on an optional string: undefined and '' are falsy
TextOr(text, default) ==
  IF text = NoText \/ text[1] = "" THEN default ELSE text[1]

\* response.candidates?.[0]?.groundingMetadata?.groundingChunks || []
ChunksOr(chunks) == IF chunks = <<>> THEN <<>> ELSE chunks[1]

\* JavaScript truthiness of an optional number
Truthy(n) == n # <<>> /\ n[1] # 0

NewCall(kind, msg, lat, lng, ai) ==
  [kind |-> kind, msg |-> msg, lat |-> lat, lng |-> lng, ai |-> ai,
   pc |-> "run", requests |-> 0, req |-> <<>>, session |-> Null,
   resp |-> <<>>, result |-> <<>>]

\* a request handed to the endpoint twice
IssueRequest_Twice(call, request) ==
  [call EXCEPT !.pc = "await", !.requests = @ + 2, !.req = <<request>>]

\* await ai.models.generateContent(...) / await chat.sendMessage(...)
IssueRequest(call, request) ==
  [call EXCEPT !.pc = "await", !.requests = @ + 1, !.req = <<request>>]

\* the async function returns value
Resolve(call, value) == [call EXCEPT !.pc = "resolved", !.result = <<value>>]

\* an exception leaves the async function
Reject(call) == [call EXCEPT !.pc = "rejected"]

\* the awaited request settled with resp
Settled(call, resp) == [call EXCEPT !.resp = <<resp>>]

Request(model, tool, prompt, retrieval, session, message) ==
  [model |-> model, tool |-> tool, prompt |-> prompt,
   retrievalConfig |-> retrieval, session |-> session, message |-> message]

\* ---- generateEnhancedDataReport -----------------------------------------
\* a catch block that returns the no-analysis text
ReportFallback_NoAnalysis == [text |-> "No analysis available.", sources |-> <<>>]

\* the value of the catch block
ReportFallback ==
  [text |-> "Error generating report. Please check your API key and connection.",
   sources |-> <<>>]

\* up to the await: getAI() inside the try, then the request
ReportStart(ai) ==
  LET call == NewCall("report", <<>>, <<>>, <<>>, ai)
  IN  IF ai = "throw" THEN Resolve(call, ReportFallback)
      ELSE IssueRequest(call,
             Request("gemini-3-flash-preview", "googleSearch",
                     <<"report", "GVA_10_YEAR_REVIEW", "MOCK_DATA">>,
                     <<>>, Null, <<>>))

\* after the await
ReportResume(call, resp) ==
  IF ~resp.ok THEN Resolve(Settled(call, resp), ReportFallback)
  ELSE Resolve(Settled(call, resp),
         [text |-> TextOr(resp.text, "No analysis available."),
          sources |-> ChunksOr(resp.chunks)])

\* ---- findLocalSafetyResources -------------------------------------------
\* a catch block that reuses the report's message
ResourcesFallback_Shared ==
  [text |-> "Error generating report. Please check your API key and connection.",
   sources |-> <<>>]

ResourcesFallback == [text |-> "Error finding local resources.", sources |-> <<>>]

\* lat && lng ? `Near my current location (Lat: ..., Lng: ...)` : "In major ..."
LocationPrompt(lat, lng) ==
  IF Truthy(lat) /\ Truthy(lng)
    THEN <<"Near my current location (Lat: ", lat[1], ", Lng: ", lng[1], ")">>
    ELSE <<"In major US metropolitan areas">>

\* lat && lng ? { latLng: { latitude: lat, longitude: lng } } : undefined
RetrievalConfig(lat, lng) ==
  IF Truthy(lat) /\ Truthy(lng)
    THEN << [latLng |-> [latitude |-> lat[1], longitude |-> lng[1]]] >>
    ELSE <<>>

ResourcesStart(lat, lng, ai) ==
  LET call == NewCall("resources", <<>>, lat, lng, ai)
  IN  IF ai = "throw" THEN Resolve(call, ResourcesFallback)
      ELSE IssueRequest(call,
             Request("gemini-2.5-flash", "googleMaps", LocationPrompt(lat, lng),
                     RetrievalConfig(lat, lng), Null, <<>>))

ResourcesResume(call, resp) ==
  IF ~resp.ok THEN Resolve(Settled(call, resp), ResourcesFallback)
  ELSE Resolve(Settled(call, resp),
         [text |-> TextOr(resp.text, "No resources found."),
          sources |-> ChunksOr(resp.chunks)])

\* ---- ChatSession: currentChat, startProChat, sendChatMessage ------------
\* a session id is the index of its conversation in sessions; every
\* ai.chats.create() returns an object that did not exist before.

\* an initializer that keeps a session that already exists
SessionAfterStart_KeepExisting(chat, sess) ==
  IF chat # Null THEN chat ELSE Len(sess) + 1

\* currentChat = ai.chats.create({...})
SessionAfterStart(chat, sess) == Len(sess) + 1

\* an initializer that returns without creating anything
StartProChat_NoSession(chat, sess, ai) ==
  [chat |-> chat, sessions |-> sess, threw |-> ai = "throw"]

\* startProChat(): the module state it leaves, and whether it threw.
\* getAI() or chats.create() throwing leaves the assignment undone.
StartProChat(chat, sess, ai) ==
  IF ai = "throw"
    THEN [chat |-> chat, sessions |-> sess, threw |-> TRUE]
    ELSE [chat |-> SessionAfterStart(chat, sess),
          sessions |-> Append(sess, <<>>), threw |-> FALSE]

ChatFallback ==
  "The AI Expert is currently unavailable. Please check your configuration."

\* sendChatMessage up to the await.  `if (!currentChat) startProChat()` is
\* outside the try: a throw there rejects the returned promise.
SendChatMessageStart(chat, sess, message, ai) ==
  LET started == IF chat = Null THEN StartProChat(chat, sess, ai)
                 ELSE [chat |-> chat, sessions |-> sess, threw |-> FALSE]
      call    == NewCall("chat", message, <<>>, <<>>,
                         IF chat = Null THEN ai ELSE "unused")
  IN  IF started.threw
        THEN [chat |-> started.chat, sessions |-> started.sessions,
              call |-> Reject(call)]
        ELSE [chat |-> started.chat,
              sessions |-> [started.sessions EXCEPT
                              ![started.chat] = Append(@, message)],
              call |-> [IssueRequest(call,
                          Request("gemini-3-pro-preview", "chat", <<>>, <<>>,
                                  started.chat, message))
                        EXCEPT !.session = started.chat]]

\* a continuation without the catch: a failed request rejects the promise
ChatResume_Rethrow(call, resp) ==
  IF ~resp.ok THEN Reject(Settled(call, resp))
  ELSE Resolve(Settled(call, resp),
         TextOr(resp.text, "No response received from the model."))

\* sendChatMessage after the await
ChatResume(call, resp) ==
  IF ~resp.ok THEN Resolve(Settled(call, resp), ChatFallback)
  ELSE Resolve(Settled(call, resp),
         TextOr(resp.text, "No response received from the model."))

\* a catch block that drops the session after a failed request
ChatAfterSettle_Reset(chat, resp) == IF resp.ok THEN chat ELSE Null

\* currentChat once a chat request settled: neither branch assigns it
ChatAfterSettle(chat, resp) == chat

\* a settled maps request that wakes the report's continuation
Resume_ResourcesAsReport(call, resp) ==
  CASE call.kind = "report"    -> ReportResume(call, resp)
    [] call.kind = "resources" -> ReportResume(call, resp)
    [] call.kind = "chat"      -> ChatResume(call, resp)

\* the continuation of whichever function issued the call
Resume(call, resp) ==
  CASE call.kind = "report"    -> ReportResume(call, resp)
    [] call.kind = "resources" -> ResourcesResume(call, resp)
    [] call.kind = "chat"      -> ChatResume(call, resp)

Op(name, threw) == [op |-> name, threw |-> threw]

(***************************************************************************)
(* Inputs explored                                                         *)
(***************************************************************************)
\* typed into State Filter
StateQueries == { <<>>, <<"t","E","x">>, <<"I","A">>, <<"z","z">>,
                  <<"T","e","x","a","s">> }
\* typed into City Filter
\* (the last one is the Kelvin sign, which lower-cases to k)
CityQueries  == { <<>>, <<"O","u">>, <<"l","a","n","d">>, <<"U+212A">> }
\* typed into the chat box
InputTexts   == { <<" ">>, <<"\f","U+3000">>, <<"h","i">>,
                  <<" ","w","h","y","?"," ">> }
\* sendChatMessage(message)
ChatMessages == { <<"h","e","l","l","o">> }
Lats == { <<>>, <<0>>, <<41>> }                    \* lat?: number
Lngs == { <<>>, <<-87>> }                          \* lng?: number

\* records and queries of the lists SpecFilter draws: besides a state of
\* ASCII letters, capital alpha and capital sigma in both orders (a capital
\* sigma that ends a word lower-cases to the final form U+03C2, any other to
\* U+03C3) and capital I with dot above (which lower-cases to two units)
SmallStates  == { <<"T","x">>, <<"U+0391","U+03A3">>, <<"U+03A3","U+0391">>,
                  <<"U+0130">> }
SmallCities  == { <<"A","b">>, <<"b","a">> }
\* the state and city_county of the records drawn
SmallPlaces ==
  (SmallStates \X SmallCities)
    \ { << <<"U+0391","U+03A3">>, <<"b","a">> >>,
        << <<"U+0130">>, <<"A","b">> >> }
SmallRecords ==
  { [date |-> <<"J",",","5">>, state |-> p[1], city_county |-> p[2],
     address |-> <<"1"," ","S","t">>, killed |-> 0, injured |-> 12,
     source_link |-> <<"/">>] : p \in SmallPlaces }
SmallLists ==
  UNION { [1..n -> SmallRecords] : n \in 0..MaxIncidents }
SmallStateQueries == { <<>>, <<"t">>, <<"T","X">>, <<"U+03A3">>, <<"i">> }
SmallCityQueries  == { <<>>, <<"B">>, <<"a","b">> }

(***************************************************************************)
(* State after construction: module gemini.ts loaded, App rendered once    *)
(***************************************************************************)
InitApp ==
  /\ stateFilter = <<>>
  /\ cityFilter = <<>>
  /\ downloads = <<>>
  /\ appPhase = "init"
  /\ chatHistory = <<>>
  /\ userInput = <<>>
  /\ isTyping = FALSE
  /\ currentChat = Null
  /\ sessions = <<>>
  /\ calls = <<>>
  /\ lastOp = Op("init", FALSE)
  /\ reportData = <<>>
  /\ isGeneratingReport = FALSE
  /\ intelResponse = <<>>
  /\ isIntelLoading = FALSE
  /\ lookups = <<>>

Init ==
  /\ incidents = MOCK_DATA
  /\ filteredIncidents = FilterIncidents(incidents, <<>>, <<>>)
  /\ InitApp

\* the gateway module alone: no App, the explorer holds nothing
InitService ==
  /\ incidents = <<>>
  /\ filteredIncidents = <<>>
  /\ InitApp

InitFilter ==
  /\ incidents \in SmallLists
  /\ filteredIncidents = FilterIncidents(incidents, <<>>, <<>>)
  /\ InitApp

(***************************************************************************)
(* Incident explorer: filter inputs and CSV export                         *)
(***************************************************************************)
\* onChange of the State Filter input, and the useMemo it invalidates
SetStateFilter(v) ==
  /\ stateFilter' = v
  /\ filteredIncidents' = FilterIncidents(incidents, v, cityFilter)
  /\ lastOp' = Op("setStateFilter", FALSE)
  /\ UNCHANGED <<incidents, cityFilter, downloads, uvars, hvars,
                 currentChat,
                 sessions, calls>>

\* onChange of the City Filter input, and the useMemo it invalidates
SetCityFilter(v) ==
  /\ cityFilter' = v
  /\ filteredIncidents' = FilterIncidents(incidents, stateFilter, v)
  /\ lastOp' = Op("setCityFilter", FALSE)
  /\ UNCHANGED <<incidents, stateFilter, downloads, uvars, hvars,
                 currentChat,
                 sessions, calls>>

\* an export that writes the whole incident list, whatever the filters
DownloadFilteredIncidentsCSV_Unfiltered(now) ==
  /\ Len(downloads) < MaxDownloads
  /\ downloads' =
       IF Len(filteredIncidents) = 0 THEN downloads
       ELSE Append(downloads,
                   [download |-> IncidentsFileName(now),
                    content  |-> IncidentsCSV(incidents),
                    records  |-> incidents])
  /\ lastOp' = Op("downloadFilteredIncidentsCSV", FALSE)
  /\ UNCHANGED <<incidents, stateFilter, cityFilter, filteredIncidents,
                 uvars, hvars, currentChat, sessions, calls>>

\* downloadFilteredIncidentsCSV, clicked when new Date().toISOString() = now
DownloadFilteredIncidentsCSV(now) ==
  /\ Len(downloads) < MaxDownloads
  /\ downloads' =
       IF Len(filteredIncidents) = 0 THEN downloads
       ELSE Append(downloads,
                   [download |-> IncidentsFileName(now),
                    content  |-> IncidentsCSV(filteredIncidents),
                    records  |-> filteredIncidents])
  /\ lastOp' = Op("downloadFilteredIncidentsCSV", FALSE)
  /\ UNCHANGED <<incidents, stateFilter, cityFilter, filteredIncidents,
                 uvars, hvars, currentChat, sessions, calls>>

\* downloadSummaryCSV: the table has no per-record source list
DownloadSummaryCSV ==
  /\ Len(downloads) < MaxDownloads
  /\ downloads' = Append(downloads,
                         [download |-> SummaryFileName,
                          content  |-> SummaryCSV(GVA_10_YEAR_REVIEW),
                          records  |-> <<>>])
  /\ lastOp' = Op("downloadSummaryCSV", FALSE)
  /\ UNCHANGED <<incidents, stateFilter, cityFilter, filteredIncidents,
                 uvars, hvars, currentChat, sessions, calls>>

(***************************************************************************)
(* The App's chat                                                          *)
(***************************************************************************)
\* the WhiteSpace and LineTerminator code points, which
\* String.prototype.trim strips: tab, line feed, vertical tab, form feed,
\* carriage return, space, no-break space, the other space separators
\* (Zs), line and paragraph separator and U+FEFF
Whitespace ==
  { "\t", "\n", "", "\f", "\r", " ", "U+00A0", "U+1680", "U+2000",
    "U+2001", "U+2002", "U+2003", "U+2004", "U+2005", "U+2006", "U+2007",
    "U+2008", "U+2009", "U+200A", "U+2028", "U+2029", "U+202F", "U+205F",
    "U+3000", "U+FEFF" }

\* String.prototype.trim
RECURSIVE TrimStart(_)
TrimStart(s) ==
  IF s # <<>> /\ Head(s) \in Whitespace THEN TrimStart(Tail(s)) ELSE s

RECURSIVE TrimEnd(_)
TrimEnd(s) ==
  IF s # <<>> /\ s[Len(s)] \in Whitespace
    THEN TrimEnd(SubSeq(s, 1, Len(s) - 1)) ELSE s

Trim(s) == TrimEnd(TrimStart(s))

\* a guard that tests the input as typed, blanks included
PassesSendGuard_NoTrim(input, typing) == ~(input = <<>> \/ typing)

\* a guard that forgets the pending request
PassesSendGuard_NoGate(input, typing) == Trim(input) # <<>>

\* the negation of `!userInput.trim() || isTyping`
PassesSendGuard(input, typing) == ~(Trim(input) = <<>> \/ typing)

\* useEffect(() => { startProChat(); }, []): a throw in the effect
\* unmounts the tree, there being no error boundary
Mount(ai) ==
  /\ appPhase = "init"
  /\ LET s == StartProChat(currentChat, sessions, ai)
     IN  /\ currentChat' = s.chat
         /\ sessions' = s.sessions
         /\ appPhase' = IF s.threw THEN "crashed" ELSE "mounted"
         /\ lastOp' = Op("startProChat", s.threw)
  /\ UNCHANGED <<fvars, hvars, chatHistory, userInput, isTyping, calls>>

\* onChange of the chat input
SetUserInput(v) ==
  /\ appPhase = "mounted"
  /\ userInput' = v
  /\ lastOp' = Op("setUserInput", FALSE)
  /\ UNCHANGED <<fvars, hvars, appPhase, chatHistory, isTyping, currentChat,
                 sessions, calls>>

\* A message's content is a text: what was typed, character by character,
\* or a reply, which the model does not look into, as a text of one piece.
Text(s) == <<s>>

\* an updater that forgets the messages before
AppendMessage_Replace(prev, message) == <<message>>

\* an updater that puts the new message first
AppendMessage_Prepend(prev, message) == <<message>> \o prev

\* the updater `prev => [...prev, message]` given to setChatHistory
AppendMessage(prev, message) == Append(prev, message)

\* the requests the App made so far, and the lookups still waiting for
\* geolocation, each of which will make one
AppRequests ==
  Len(calls) + Cardinality({ k \in 1..Len(lookups) : lookups[k].geo = "pending" })

\* handleSendMessage up to its await, sendChatMessage's start included
HandleSendMessage(ai) ==
  /\ appPhase = "mounted"
  /\ IF ~PassesSendGuard(userInput, isTyping)
       THEN /\ lastOp' = Op("handleSendMessage", FALSE)
            /\ UNCHANGED <<chatHistory, userInput, isTyping, currentChat,
                           sessions, calls>>
       ELSE LET currentInput == userInput
                r == SendChatMessageStart(currentChat, sessions,
                                          currentInput, ai)
            IN  /\ AppRequests < MaxSends
                /\ userInput' = <<>>
                /\ chatHistory' = AppendMessage(chatHistory,
                                    [role |-> "user", content |-> currentInput])
                /\ isTyping' = TRUE
                /\ currentChat' = r.chat
                /\ sessions' = r.sessions
                /\ calls' = Append(calls, r.call)
                /\ lastOp' = Op("handleSendMessage", r.call.pc = "rejected")
  /\ UNCHANGED <<fvars, hvars, appPhase>>

\* the request of chat call i settles: sendChatMessage resumes and
\* resolves, then handleSendMessage resumes after its await
ChatSettles(i, resp) ==
  /\ appPhase = "mounted"
  /\ calls[i].kind = "chat"
  /\ calls[i].pc = "await"
  /\ LET done == Resume(calls[i], resp)
     IN  /\ calls' = [calls EXCEPT ![i] = done]
         /\ IF done.pc = "resolved"
              THEN /\ chatHistory' = AppendMessage(chatHistory,
                                       [role |-> "assistant",
                                        content |-> Text(done.result[1])])
                   /\ isTyping' = FALSE
              \* a rejection leaves the handler at its await: it has no catch
              ELSE UNCHANGED <<chatHistory, isTyping>>
         /\ lastOp' = Op("sendChatMessage.settled", done.pc = "rejected")
  /\ currentChat' = ChatAfterSettle(currentChat, resp)
  /\ UNCHANGED <<fvars, hvars, appPhase, userInput, sessions>>

(***************************************************************************)
(* The App's report and safety-resource lookup                             *)
(*                                                                         *)
(* An async gateway function that returns before any await (its catch      *)
(* block ran at once) hands back a resolved promise; the handler's         *)
(* continuation then runs as a microtask, before any other event, so the   *)
(* handler's two halves form one step.                                     *)
(***************************************************************************)
\* handleGenerateReport behind a button that is never disabled
HandleGenerateReport_NotDisabled(ai) ==
  /\ appPhase = "mounted"
  /\ AppRequests < MaxSends
  /\ LET call == ReportStart(ai)
     IN  /\ calls' = Append(calls, call)
         /\ IF call.pc = "resolved"
              THEN /\ reportData' = call.result
                   /\ isGeneratingReport' = FALSE
              ELSE /\ reportData' = reportData
                   /\ isGeneratingReport' = TRUE
  /\ lastOp' = Op("handleGenerateReport", FALSE)
  /\ UNCHANGED <<fvars, uvars, currentChat, sessions, intelResponse,
                 isIntelLoading, lookups>>

\* handleGenerateReport, behind its button (disabled while isGeneratingReport)
HandleGenerateReport(ai) ==
  /\ appPhase = "mounted"
  /\ ~isGeneratingReport
  /\ AppRequests < MaxSends
  /\ LET call == ReportStart(ai)
     IN  /\ calls' = Append(calls, call)
         /\ IF call.pc = "resolved"
              THEN /\ reportData' = call.result
                   /\ isGeneratingReport' = FALSE
              ELSE /\ reportData' = reportData
                   /\ isGeneratingReport' = TRUE
  /\ lastOp' = Op("handleGenerateReport", FALSE)
  /\ UNCHANGED <<fvars, uvars, currentChat, sessions, intelResponse,
                 isIntelLoading, lookups>>

\* the request of report call i settles: generateEnhancedDataReport
\* resolves, then handleGenerateReport resumes after its await
ReportSettles(i, resp) ==
  /\ appPhase = "mounted"
  /\ calls[i].kind = "report"
  /\ calls[i].pc = "await"
  /\ LET done == Resume(calls[i], resp)
     IN  /\ calls' = [calls EXCEPT ![i] = done]
         /\ reportData' = done.result
  /\ isGeneratingReport' = FALSE
  /\ lastOp' = Op("generateEnhancedDataReport.settled", FALSE)
  /\ UNCHANGED <<fvars, uvars, currentChat, sessions, intelResponse,
                 isIntelLoading, lookups>>

\* what getCurrentPosition can answer: the error callback, or a position
Positions == { [latitude |-> 41, longitude |-> -87] }
GeoAnswers == { <<>> } \cup { <<p>> : p \in Positions }

\* a lookup that never passes the position on
LookupArgs_NoPosition(answer) == [lat |-> <<>>, lng |-> <<>>]

\* the arguments of findLocalSafetyResources in each callback:
\* (position.coords.latitude, position.coords.longitude), or none
LookupArgs(answer) ==
  IF answer = <<>> THEN [lat |-> <<>>, lng |-> <<>>]
  ELSE [lat |-> <<answer[1].latitude>>, lng |-> <<answer[1].longitude>>]

\* `const data = await findLocalSafetyResources(...)` and the two setters
\* after it, when the call returned before any await
IntelAfterCall(call) ==
  /\ calls' = Append(calls, call)
  /\ IF call.pc = "resolved"
       THEN /\ intelResponse' = call.result
            /\ isIntelLoading' = FALSE
       ELSE /\ intelResponse' = intelResponse
            /\ isIntelLoading' = TRUE

\* handleMapsGrounding, behind its button (disabled while isIntelLoading);
\* hasGeo is `"geolocation" in navigator`
HandleMapsGrounding(hasGeo, ai) ==
  /\ appPhase = "mounted"
  /\ ~isIntelLoading
  /\ AppRequests < MaxSends
  /\ IF hasGeo
       THEN /\ lookups' = Append(lookups,
                             [geo |-> "pending", answer |-> <<>>, call |-> 0])
            /\ isIntelLoading' = TRUE
            /\ UNCHANGED <<calls, intelResponse>>
       ELSE /\ lookups' = Append(lookups,
                             [geo |-> "absent", answer |-> <<>>,
                              call |-> Len(calls) + 1])
            /\ IntelAfterCall(ResourcesStart(<<>>, <<>>, ai))
  /\ lastOp' = Op("handleMapsGrounding", FALSE)
  /\ UNCHANGED <<fvars, uvars, currentChat, sessions, reportData,
                 isGeneratingReport>>

\* getCurrentPosition calls back for lookup k: the success callback with a
\* position, or the error callback
PositionSettles(k, answer, ai) ==
  /\ appPhase = "mounted"
  /\ lookups[k].geo = "pending"
  /\ lookups' = [lookups EXCEPT
                   ![k] = [geo |-> IF answer = <<>> THEN "error" ELSE "position",
                           answer |-> answer, call |-> Len(calls) + 1]]
  /\ LET args == LookupArgs(answer)
     IN  IntelAfterCall(ResourcesStart(args.lat, args.lng, ai))
  /\ lastOp' = Op("getCurrentPosition.settled", FALSE)
  /\ UNCHANGED <<fvars, uvars, currentChat, sessions, reportData,
                 isGeneratingReport>>

\* the request of resources call i settles: findLocalSafetyResources
\* resolves, then the callback that awaits it resumes
ResourcesSettles(i, resp) ==
  /\ appPhase = "mounted"
  /\ calls[i].kind = "resources"
  /\ calls[i].pc = "await"
  /\ LET done == Resume(calls[i], resp)
     IN  /\ calls' = [calls EXCEPT ![i] = done]
         /\ intelResponse' = done.result
  /\ isIntelLoading' = FALSE
  /\ lastOp' = Op("findLocalSafetyResources.settled", FALSE)
  /\ UNCHANGED <<fvars, uvars, currentChat, sessions, reportData,
                 isGeneratingReport, lookups>>

UiSetStateFilter(v) == appPhase = "mounted" /\ SetStateFilter(v)
UiSetCityFilter(v) == appPhase = "mounted" /\ SetCityFilter(v)
UiDownloadFilteredIncidentsCSV(now) ==
  appPhase = "mounted" /\ DownloadFilteredIncidentsCSV(now)
UiDownloadSummaryCSV == appPhase = "mounted" /\ DownloadSummaryCSV

(***************************************************************************)
(* The gateway module called directly                                      *)
(***************************************************************************)
CallStartProChat(ai) ==
  /\ Len(sessions) < MaxSessions
  /\ LET s == StartProChat(currentChat, sessions, ai)
     IN  /\ currentChat' = s.chat
         /\ sessions' = s.sessions
         /\ lastOp' = Op("startProChat", s.threw)
  /\ UNCHANGED <<fvars, hvars, uvars, calls>>

CallGenerateReport(ai) ==
  /\ Len(calls) < MaxCalls
  /\ calls' = Append(calls, ReportStart(ai))
  /\ lastOp' = Op("generateEnhancedDataReport", FALSE)
  /\ UNCHANGED <<fvars, hvars, uvars, currentChat, sessions>>

CallFindLocalSafetyResources(lat, lng, ai) ==
  /\ Len(calls) < MaxCalls
  /\ calls' = Append(calls, ResourcesStart(lat, lng, ai))
  /\ lastOp' = Op("findLocalSafetyResources", FALSE)
  /\ UNCHANGED <<fvars, hvars, uvars, currentChat, sessions>>

CallSendChatMessage(message, ai) ==
  /\ Len(calls) < MaxCalls
  /\ LET r == SendChatMessageStart(currentChat, sessions, message, ai)
     IN  /\ currentChat' = r.chat
         /\ sessions' = r.sessions
         /\ calls' = Append(calls, r.call)
         /\ lastOp' = Op("sendChatMessage", r.call.pc = "rejected")
  /\ UNCHANGED <<fvars, hvars, uvars>>

\* the request of call i settles and the function that awaits it resumes
RequestSettles(i, resp) ==
  /\ calls[i].pc = "await"
  /\ calls' = [calls EXCEPT ![i] = Resume(calls[i], resp)]
  /\ currentChat' = IF calls[i].kind = "chat"
                      THEN ChatAfterSettle(currentChat, resp)
                      ELSE currentChat
  /\ lastOp' = Op("settled", FALSE)
  /\ UNCHANGED <<fvars, hvars, uvars, sessions>>

(***************************************************************************)
(* Specifications                                                          *)
(***************************************************************************)
\* The handlers of the App fall into two groups that share no variable: the
\* AI Expert chat (uvars, svars) and the Incident Explorer (fvars).  Each
\* group is explored with the other at rest.

\* the App: mount and the AI Expert chat
Next ==
  \/ \E ai \in AiOutcomes : Mount(ai)
  \/ \E v \in InputTexts : SetUserInput(v)
  \/ \E ai \in AiOutcomes : HandleSendMessage(ai)
  \/ \E i \in 1..Len(calls), resp \in Responses : ChatSettles(i, resp)

Spec == Init /\ [][Next]_vars

\* some outstanding chat request completes
ChatCompletes ==
  \E i \in 1..Len(calls), resp \in Responses : ChatSettles(i, resp)

\* the same App when every request the chat handler issued completes: the
\* endpoint answers or the call fails, and the awaiting handler is resumed
SpecChatFair == Spec /\ WF_vars(ChatCompletes)

\* the App: mount and the three AI handlers side by side.  What this
\* explores is their interleavings, so the inputs are few: the chat box
\* takes one text, a request ends in one of HandlerResponses, and building
\* the client fails only in the calls made by the click itself.
NextHandlers ==
  \/ \E ai \in AiOutcomes : Mount(ai)
  \/ SetUserInput(<<"h","i">>)
  \/ \E ai \in AiOutcomes : HandleSendMessage(ai)
  \/ \E i \in 1..Len(calls), resp \in HandlerResponses : ChatSettles(i, resp)
  \/ \E ai \in AiOutcomes : HandleGenerateReport(ai)
  \/ \E i \in 1..Len(calls), resp \in HandlerResponses : ReportSettles(i, resp)
  \/ \E hasGeo \in BOOLEAN, ai \in AiOutcomes : HandleMapsGrounding(hasGeo, ai)
  \/ \E k \in 1..Len(lookups), answer \in GeoAnswers :
       PositionSettles(k, answer, "ok")
  \/ \E i \in 1..Len(calls), resp \in HandlerResponses :
       ResourcesSettles(i, resp)

SpecHandlers == Init /\ [][NextHandlers]_vars

\* the App: mount, the Incident Explorer over MOCK_DATA and the two exports
NextExplorer ==
  \/ \E ai \in AiOutcomes : Mount(ai)
  \/ \E v \in StateQueries : UiSetStateFilter(v)
  \/ \E v \in CityQueries : UiSetCityFilter(v)
  \/ \E now \in IsoNow : UiDownloadFilteredIncidentsCSV(now)
  \/ UiDownloadSummaryCSV

SpecExplorer == Init /\ [][NextExplorer]_vars

\* services/gemini.ts under any caller
NextService ==
  \/ \E ai \in AiOutcomes : CallStartProChat(ai)
  \/ \E ai \in AiOutcomes : CallGenerateReport(ai)
  \/ \E lat \in Lats, lng \in Lngs, ai \in AiOutcomes :
       CallFindLocalSafetyResources(lat, lng, ai)
  \/ \E m \in ChatMessages, ai \in AiOutcomes : CallSendChatMessage(m, ai)
  \/ \E i \in 1..Len(calls), resp \in Responses : RequestSettles(i, resp)

SpecService == InitService /\ [][NextService]_vars

\* the filter over any incident list
NextFilter ==
  \/ \E v \in SmallStateQueries : SetStateFilter(v)
  \/ \E v \in SmallCityQueries : SetCityFilter(v)

SpecFilter == InitFilter /\ [][NextFilter]_vars

(***************************************************************************)
(* Properties                                                              *)
(***************************************************************************)
\* a and b are the same letter up to case: equal, one the capital of the
\* other, or two capitals of one small letter (K and the Kelvin sign)
SameLetter(a, b) ==
  \/ a = b
  \/ <<a, b>> \in UpperLower \/ <<b, a>> \in UpperLower
  \/ /\ ~(Plain(a) /\ Plain(b))
     /\ LET pairs == UpperLower \cup LowerCaseBMP
        IN  \/ <<a, b>> \in pairs \/ <<b, a>> \in pairs
            \/ \E p \in pairs : p[1] = a /\ <<b, p[2]>> \in pairs

\* hay contains needle, compared case-insensitively
ContainsIgnoringCase(hay, needle) ==
  \E k \in 0..(Len(hay) - Len(needle)) :
     \A j \in 1..Len(needle) : SameLetter(hay[k + j], needle[j])

\* positions of incidents whose state and city_county contain the queries
MatchingPositions ==
  { i \in 1..Len(incidents) :
      /\ ContainsIgnoringCase(incidents[i].state, stateFilter)
      /\ ContainsIgnoringCase(incidents[i].city_county, cityFilter) }

\* C1 as stated: the filtered list is the subsequence of the incident list,
\* in the list's order, of exactly the records whose state contains the
\* state query and whose city_county contains the city query,
\* case-insensitively (letter for letter, up to case): its j-th record is
\* the record at the j-th matching position.
C1_FilterExactSubsequence ==
  /\ Len(filteredIncidents) = Cardinality(MatchingPositions)
  /\ \A j \in 1..Len(filteredIncidents) :
       \E i \in MatchingPositions :
          /\ Cardinality({k \in MatchingPositions : k < i}) = j - 1
          /\ filteredIncidents[j] = incidents[i]

\* every unit of s is an ASCII character
PlainText(s) == \A k \in 1..Len(s) : Plain(s[k])

\* positions of incidents whose lower-cased state and city_county contain
\* the lower-cased queries
LowerCasedPositions ==
  { i \in 1..Len(incidents) :
      /\ Includes(ToLowerCase(incidents[i].state), ToLowerCase(stateFilter))
      /\ Includes(ToLowerCase(incidents[i].city_county),
                  ToLowerCase(cityFilter)) }

\* C1, amended: the filtered list is the subsequence of the incident list,
\* in the list's order, of exactly the records whose lower-cased state
\* contains the lower-cased state query and whose lower-cased city_county
\* contains the lower-cased city query: its j-th record is the record at the
\* j-th such position. For a record and queries of ASCII characters that is
\* containment compared case-insensitively.
C1_FilterByLowerCasedContainment ==
  /\ Len(filteredIncidents) = Cardinality(LowerCasedPositions)
  /\ \A j \in 1..Len(filteredIncidents) :
       \E i \in LowerCasedPositions :
          /\ Cardinality({k \in LowerCasedPositions : k < i}) = j - 1
          /\ filteredIncidents[j] = incidents[i]
  /\ (PlainText(stateFilter) /\ PlainText(cityFilter)) =>
       \A i \in 1..Len(incidents) :
          (PlainText(incidents[i].state)
             /\ PlainText(incidents[i].city_county)) =>
            (i \in LowerCasedPositions <=> i \in MatchingPositions)

\* the state query is capital sigma and the city query is set; the first
\* record, whose state ends in the very letter typed, is dropped, and a
\* later record, whose state begins with it, is kept
C1_Witness ==
  /\ stateFilter = <<"U+03A3">>
  /\ cityFilter # <<>>
  /\ Len(incidents) >= 2
  /\ incidents[1].state = <<"U+0391","U+03A3">>
  /\ Includes(incidents[1].state, stateFilter)
  /\ Includes(ToLowerCase(incidents[1].city_county), ToLowerCase(cityFilter))
  /\ 1 \notin LowerCasedPositions
  /\ filteredIncidents # <<>>
  /\ \A j \in 1..Len(filteredIncidents) :
        filteredIncidents[j].state = <<"U+03A3","U+0391">>

\* the request of call c failed, or the client or session it needed could
\* not be built
Failed(c) == c.ai = "throw" \/ (c.resp # <<>> /\ ~c.resp[1].ok)

\* C2: sendChatMessage never rejects; whenever anything failed during the
\* call (session creation or the request) it resolved to the chat fallback.
C2_ChatNeverRejects ==
  \A i \in 1..Len(calls) :
     calls[i].kind = "chat" =>
       /\ calls[i].pc # "rejected"
       /\ Failed(calls[i]) =>
            /\ calls[i].pc = "resolved"
            /\ calls[i].result =
                 <<"The AI Expert is currently unavailable. Please check your configuration.">>

\* chat calls whose request is outstanding
ChatsInFlight ==
  { i \in 1..Len(calls) : calls[i].kind = "chat" /\ calls[i].pc = "await" }

\* C3: at most one chat request issued by handleSendMessage is in flight.
C3_AtMostOneChatInFlight == Cardinality(ChatsInFlight) <= 1

\* a request is in flight, the user has typed a sendable text, and the
\* submit that followed was turned away
C3_Witness ==
  /\ Cardinality(ChatsInFlight) = 1
  /\ Trim(userInput) # <<>>
  /\ lastOp = Op("handleSendMessage", FALSE)

\* a step in which startProChat, or sendChatMessage, was called
SessionCall ==
  /\ lastOp'.op \in {"startProChat", "sendChatMessage"}
  /\ vars' # vars

\* C4 as stated: currentChat starts null and becomes a session on the
\* first startProChat call or the first sendChatMessage call made while it
\* is null, whatever the outcome of the call; once a session, it is never
\* null again.
C4_ActiveOnFirstCall ==
  /\ currentChat = Null
  /\ [][ /\ currentChat # Null => currentChat' # Null
         /\ (currentChat = Null /\ SessionCall) => currentChat' # Null ]_vars

\* C4, amended: currentChat starts null; it becomes a session only in a
\* startProChat call or a sendChatMessage call made while it is null; such a
\* call leaves it a session when creating the client and the session does
\* not throw, and leaves it null, the call throwing or rejecting, when it
\* does; once a session, it is never null again, whatever calls and request
\* outcomes follow.
C4_SessionLifecycle ==
  /\ currentChat = Null
  /\ [][ /\ currentChat # Null => currentChat' # Null
         /\ (currentChat = Null /\ currentChat' # Null) =>
              lastOp' \in { Op("startProChat", FALSE),
                            Op("sendChatMessage", FALSE) }
         /\ (currentChat = Null /\ SessionCall) =>
              IF lastOp'.threw THEN currentChat' = Null
              ELSE currentChat' # Null ]_vars

\* a first message was rejected, its session not created; a later call
\* created the session, and a failed request is behind it
C4_Witness ==
  /\ currentChat # Null
  /\ calls # <<>>
  /\ calls[1].kind = "chat"
  /\ calls[1].pc = "rejected"
  /\ calls[1].session = Null
  /\ \E i \in 1..Len(calls) :
        /\ calls[i].kind = "chat"
        /\ calls[i].pc = "resolved"
        /\ Failed(calls[i])

\* a step in which startProChat was called and returned
StartProChatReturned ==
  lastOp' = Op("startProChat", FALSE) /\ vars' # vars

\* a step in which sendChatMessage handed message m to the session
MessageSent ==
  /\ Len(calls') = Len(calls) + 1
  /\ calls'[Len(calls')].kind = "chat"
  /\ calls'[Len(calls')].pc = "await"

\* a step in which startProChat was called and threw
StartProChatThrew ==
  lastOp' = Op("startProChat", TRUE) /\ vars' # vars

\* what sendChatMessage does to the session, and a startProChat that
\* returns: a message sent while a session exists leaves currentChat as it
\* is; every message goes to the session current at its call and to no
\* other; a startProChat call that returns makes currentChat a session that
\* did not exist before and holds no message, and leaves the earlier
\* conversations as they were
SendsAndReturnedStarts ==
  /\ (MessageSent /\ currentChat # Null) =>
       /\ currentChat' = currentChat
       /\ Len(sessions') = Len(sessions)
  /\ MessageSent =>
       LET c == calls'[Len(calls')]
       IN  /\ c.session = currentChat'
           /\ c.req[1].session = currentChat'
           /\ sessions'[currentChat'] =
                (IF currentChat' \in 1..Len(sessions)
                   THEN sessions[currentChat'] ELSE <<>>) \o <<c.msg>>
           /\ \A s \in 1..Len(sessions) :
                s # currentChat' => sessions'[s] = sessions[s]
  /\ StartProChatReturned =>
       /\ currentChat' # Null
       /\ currentChat' \notin 1..Len(sessions)
       /\ currentChat' \in 1..Len(sessions')
       /\ sessions'[currentChat'] = <<>>
       /\ \A s \in 1..Len(sessions) : sessions'[s] = sessions[s]

\* C5 as stated: sendChatMessage never creates or replaces an existing
\* session, and each startProChat call, whatever its outcome, replaces the
\* session with a fresh one that holds no message.
C5_EveryStartReplaces ==
  [][ /\ SendsAndReturnedStarts
      /\ StartProChatThrew =>
           /\ currentChat' # Null
           /\ currentChat' \notin 1..Len(sessions) ]_vars

\* C5, amended: sendChatMessage never creates or replaces an existing
\* session; a startProChat call in which creating the client and the session
\* does not throw replaces the session with a fresh one that holds no
\* message, and the messages after it go to that one; a startProChat call in
\* which it throws replaces nothing: the session and every conversation stay
\* as they were, and the messages after it still go to the old session.
C5_SessionReplacedOnlyByStart ==
  [][ /\ SendsAndReturnedStarts
      /\ StartProChatThrew =>
           /\ currentChat' = currentChat
           /\ sessions' = sessions ]_vars

\* a session that holds a message is still the current one after a
\* startProChat call that threw
C5_Witness ==
  /\ lastOp = Op("startProChat", TRUE)
  /\ currentChat # Null
  /\ sessions[currentChat] # <<>>
  /\ \E i \in 1..Len(calls) : calls[i].session = currentChat

\* C6: generateEnhancedDataReport never rejects, and whenever the client
\* could not be built or the request failed it resolved to exactly the
\* report fallback: the fixed text and no sources.
C6_ReportNeverRejects ==
  \A i \in 1..Len(calls) :
     calls[i].kind = "report" =>
       /\ calls[i].pc \in {"await", "resolved"}
       /\ Failed(calls[i]) =>
            /\ calls[i].pc = "resolved"
            /\ calls[i].result =
                 << [text |-> "Error generating report. Please check your API key and connection.",
                     sources |-> <<>>] >>

\* one report call whose client could not be built and one whose request
\* failed, both resolved
C6_Witness ==
  \E i, j \in 1..Len(calls) :
     /\ calls[i].kind = "report" /\ calls[i].ai = "throw"
     /\ calls[i].pc = "resolved"
     /\ calls[j].kind = "report" /\ calls[j].ai = "ok"
     /\ calls[j].resp # <<>> /\ ~calls[j].resp[1].ok
     /\ calls[j].pc = "resolved"

\* C7: findLocalSafetyResources never rejects, and on any failure resolves
\* to {text: "Error finding local resources.", sources: []}, a text that is
\* neither the report's fallback text nor the chat's.
C7_ResourcesNeverRejects ==
  \A i \in 1..Len(calls) :
     calls[i].kind = "resources" =>
       /\ calls[i].pc \in {"await", "resolved"}
       /\ Failed(calls[i]) =>
            /\ calls[i].pc = "resolved"
            /\ calls[i].result[1].sources = <<>>
            /\ calls[i].result[1].text = "Error finding local resources."
            /\ calls[i].result[1].text # ReportFallback.text
            /\ calls[i].result[1].text # ChatFallback

\* a geolocated lookup whose request failed, and a lookup whose client
\* could not be built, both resolved
C7_Witness ==
  \E i, j \in 1..Len(calls) :
     /\ calls[i].kind = "resources" /\ calls[i].ai = "ok"
     /\ calls[i].lat # <<>> /\ calls[i].lng # <<>>
     /\ calls[i].resp # <<>> /\ ~calls[i].resp[1].ok
     /\ calls[i].pc = "resolved"
     /\ calls[j].kind = "resources" /\ calls[j].ai = "throw"
     /\ calls[j].pc = "resolved"

\* C8: a request of findLocalSafetyResources(lat, lng) with both coordinates
\* supplied, whatever their values, carries them as retrieval bias and names
\* them in its prompt; the generic prompt, without retrieval bias, is sent
\* only when the coordinates are not both supplied.
C8_CoordinatesCarried ==
  \A i \in 1..Len(calls) :
     (calls[i].kind = "resources" /\ calls[i].req # <<>>) =>
       LET c == calls[i]
           r == calls[i].req[1]
       IN  IF c.lat # <<>> /\ c.lng # <<>>
             THEN /\ r.retrievalConfig =
                       << [latLng |-> [latitude |-> c.lat[1],
                                       longitude |-> c.lng[1]]] >>
                  /\ r.prompt = <<"Near my current location (Lat: ", c.lat[1],
                                  ", Lng: ", c.lng[1], ")">>
             ELSE /\ r.retrievalConfig = <<>>
                  /\ r.prompt = <<"In major US metropolitan areas">>

\* the value a call of the given kind returns when it gives up
FallbackOf(kind) ==
  CASE kind = "report" ->
         [text |-> "Error generating report. Please check your API key and connection.",
          sources |-> <<>>]
    [] kind = "resources" ->
         [text |-> "Error finding local resources.", sources |-> <<>>]
    [] kind = "chat" ->
         "The AI Expert is currently unavailable. Please check your configuration."

\* C9 as stated: every invocation issues exactly one request, and one whose
\* request failed ends with the fallback value.
C9_ExactlyOneRequest ==
  \A i \in 1..Len(calls) :
     /\ calls[i].requests = 1
     /\ (calls[i].resp # <<>> /\ ~calls[i].resp[1].ok) =>
          /\ calls[i].pc = "resolved"
          /\ calls[i].result = <<FallbackOf(calls[i].kind)>>

\* C9 amended: every invocation issues at most one request: exactly one
\* when the client (and, for a first chat message, the session) was built,
\* none when building it threw; a request that failed is not issued again
\* and its call ends resolved with the fallback value.
C9_AtMostOneRequest ==
  \A i \in 1..Len(calls) :
     /\ calls[i].requests = (IF calls[i].ai = "throw" THEN 0 ELSE 1)
     /\ (calls[i].resp # <<>> /\ ~calls[i].resp[1].ok) =>
          /\ calls[i].pc = "resolved"
          /\ calls[i].result = <<FallbackOf(calls[i].kind)>>

\* a call that ended with the fallback after its one request failed, beside
\* a call that issued none
C9_Witness ==
  \E i, j \in 1..Len(calls) :
     /\ calls[i].resp # <<>> /\ ~calls[i].resp[1].ok
     /\ calls[i].pc = "resolved" /\ calls[i].requests = 1
     /\ calls[j].ai = "throw" /\ calls[j].requests = 0

\* the downloads made by downloadFilteredIncidentsCSV / downloadSummaryCSV
IncidentsExports ==
  { d \in 1..Len(downloads) : downloads[d].download # SummaryFileName }
SummaryExports ==
  { d \in 1..Len(downloads) : downloads[d].download = SummaryFileName }

\* ---- reading CSV text back -----------------------------------------------
\* Reading one CSV line: a comma separates fields unless it stands inside
\* double quotes, that is, after an odd number of quote characters; a field
\* wrapped in quotes reads as the text between them, "" in it as one quote.
\* The positions are computed without recursion, an exported line being
\* some ninety characters long.
SeparatorsOf(line) ==
  { i \in 1..Len(line) :
      /\ line[i] = ","
      /\ Cardinality({ j \in 1..(i - 1) : line[j] = "\"" }) % 2 = 0 }

\* the position of the k-th separator of a line
SeparatorAt(line, k) ==
  CHOOSE i \in SeparatorsOf(line) :
     Cardinality({ j \in SeparatorsOf(line) : j < i }) = k - 1

\* "" inside a quoted field is one quote
RECURSIVE Undouble(_)
Undouble(s) ==
  IF s = <<>> THEN <<>>
  ELSE IF Len(s) >= 2 /\ s[1] = "\"" /\ s[2] = "\""
    THEN <<"\"">> \o Undouble(SubSeq(s, 3, Len(s)))
    ELSE <<Head(s)>> \o Undouble(Tail(s))

\* the text of a raw field
Unquote(raw) ==
  IF Len(raw) >= 2 /\ raw[1] = "\"" /\ raw[Len(raw)] = "\""
    THEN Undouble(SubSeq(raw, 2, Len(raw) - 1))
    ELSE raw

\* the fields of one CSV line
CsvFields(line) ==
  LET n == Cardinality(SeparatorsOf(line))
  IN  [k \in 1..(n + 1) |->
         Unquote(SubSeq(line,
                        IF k = 1 THEN 1 ELSE SeparatorAt(line, k - 1) + 1,
                        IF k = n + 1 THEN Len(line)
                        ELSE SeparatorAt(line, k) - 1))]

\* the positions of the newlines of a text
Newlines(text) == { i \in 1..Len(text) : text[i] = "\n" }

\* the position of the k-th newline of a text
NewlineAt(text, k) ==
  CHOOSE i \in Newlines(text) :
     Cardinality({ j \in Newlines(text) : j < i }) = k - 1

\* the lines of a text, split at newlines
Lines(text) ==
  LET n == Cardinality(Newlines(text))
  IN  [k \in 1..(n + 1) |->
         SubSeq(text,
                IF k = 1 THEN 1 ELSE NewlineAt(text, k - 1) + 1,
                IF k = n + 1 THEN Len(text) ELSE NewlineAt(text, k) - 1)]

\* the number a run of decimal digits writes; -1 when it is none
RECURSIVE DigitsValue(_, _)
DigitsValue(s, acc) ==
  IF s = <<>> THEN acc
  ELSE IF \E d \in 1..10 : Digits[d] = Head(s)
    THEN DigitsValue(Tail(s),
                     acc * 10 + (CHOOSE d \in 1..10 : Digits[d] = Head(s)) - 1)
    ELSE -1

\* the CSV line reads back as the six values of record inc
RowReadsAs(line, inc) ==
  LET f == CsvFields(line)
  IN  /\ Len(f) = 6
      /\ f[1] = inc.date
      /\ f[2] = inc.state
      /\ f[3] = inc.city_county
      /\ f[4] = inc.address
      /\ f[5] # <<>> /\ DigitsValue(f[5], 0) = inc.killed
      /\ f[6] # <<>> /\ DigitsValue(f[6], 0) = inc.injured

\* C10: in every incidents export, each data row parses as exactly six
\* fields equal to the record's date, state, city/county, address, killed
\* and injured (text holding a comma or a quote being wrapped in quotes).
C10_RowsParseAsSixFields ==
  \A d \in IncidentsExports :
     LET lines == Lines(downloads[d].content)
         recs  == downloads[d].records
     IN  /\ Len(lines) = Len(recs) + 1
         /\ \A k \in 1..Len(recs) : RowReadsAs(lines[k + 1], recs[k])

\* ---- C11: shape of the incidents export ----------------------------------
\* the line `<date>,"<state>","<city>","<address>",<killed>,<injured>`
IncidentLine(inc) ==
  inc.date \o <<",", "\"">> \o inc.state \o <<"\"", ",", "\"">>
    \o inc.city_county \o <<"\"", ",", "\"">> \o inc.address
    \o <<"\"", ",">> \o NumberToString(inc.killed) \o <<",">>
    \o NumberToString(inc.injured)

\* the header line of the incidents export
IncidentsHeaderLine ==
  <<"D","a","t","e",",","S","t","a","t","e",",",
    "C","i","t","y","/","C","o","u","n","t","y",",",
    "A","d","d","r","e","s","s",",","K","i","l","l","e","d",",",
    "I","n","j","u","r","e","d">>

\* the lines given, each terminated by a newline
RECURSIVE TerminatedLines(_)
TerminatedLines(ls) ==
  IF ls = <<>> THEN <<>>
  ELSE Head(ls) \o <<"\n">> \o TerminatedLines(Tail(ls))

\* C11: every incidents export made from a non-empty filtered list is the
\* header line followed by one line per record of the form
\* <date>,"<state>","<city>","<address>",<killed>,<injured>, and every
\* line, the last data row included, ends with a newline.
C11_EveryLineTerminated ==
  \A d \in IncidentsExports :
     LET recs == downloads[d].records
     IN  recs # <<>> =>
           downloads[d].content =
             TerminatedLines(<<IncidentsHeaderLine>>
               \o [k \in 1..Len(recs) |-> IncidentLine(recs[k])])

\* the same lines with newlines between them and none after the last
C11_LinesSeparated ==
  \A d \in IncidentsExports :
     LET recs == downloads[d].records
     IN  recs # <<>> =>
           downloads[d].content \o <<"\n">> =
             TerminatedLines(<<IncidentsHeaderLine>>
               \o [k \in 1..Len(recs) |-> IncidentLine(recs[k])])

\* ---- C12: shape of the 10-year export ------------------------------------
SummaryHeaderLine ==
  <<"C","a","t","e","g","o","r","y",
    ",","2","0","1","5",",","2","0","1","6",",","2","0","1","7",
    ",","2","0","1","8",",","2","0","1","9",",","2","0","2","0",
    ",","2","0","2","1",",","2","0","2","2",",","2","0","2","3",
    ",","2","0","2","4">>

\* a cell as the claim writes it: a plain decimal number, or Pending
CellText(c) ==
  IF c.isNum THEN NumberToString(c.num) ELSE <<"P","e","n","d","i","n","g">>

\* `,<cell>` for each cell, in order
RECURSIVE CellsText(_)
CellsText(vals) ==
  IF vals = <<>> THEN <<>>
  ELSE <<",">> \o CellText(Head(vals)) \o CellsText(Tail(vals))

\* C12: every export of the 10-year table is the header row
\* Category,2015,...,2024 followed by exactly one row per category in table
\* order; each row is the quoted category name followed by its ten cells in
\* year order, numeric cells as plain numbers equal to the source data and
\* the "Pending" cell as the literal text Pending.
C12_SummaryExportShape ==
  \A d \in SummaryExports :
     LET lines == Lines(downloads[d].content)
         cats  == GVA_10_YEAR_REVIEW.categories
     IN  /\ Len(lines) = Len(cats) + 2
         /\ lines[1] = SummaryHeaderLine
         /\ lines[Len(lines)] = <<>>
         /\ \A k \in 1..Len(cats) :
              /\ Len(cats[k].vals) = 10
              /\ lines[k + 1] =
                   <<"\"">> \o cats[k].cat \o <<"\"">> \o CellsText(cats[k].vals)

C12_Witness ==
  /\ lastOp.op = "downloadSummaryCSV"
  /\ \E d \in SummaryExports :
       Len(Lines(downloads[d].content)) > Len(GVA_10_YEAR_REVIEW.categories)

\* ---- C13: reading the 10-year export back --------------------------------
\* the rows of a CSV text: one per line, the newline that ends the text
\* opening no further row
ParseCsv(text) ==
  LET lines == Lines(text)
      n     == IF lines[Len(lines)] = <<>> THEN Len(lines) - 1 ELSE Len(lines)
  IN  [k \in 1..n |-> CsvFields(lines[k])]

\* the field reads back as cell c: the same number, or the same text
CellReadsAs(field, c) ==
  IF c.isNum THEN field # <<>> /\ DigitsValue(field, 0) = c.num
  ELSE field = c.str

\* C13: parsing the text of a 10-year export back into rows recovers the
\* table: the years from the header, and for every category and every year
\* the original value, the "Pending" cell as the literal text.
C13_SummaryRoundTrip ==
  \A d \in SummaryExports :
     LET rows  == ParseCsv(downloads[d].content)
         years == GVA_10_YEAR_REVIEW.years
         cats  == GVA_10_YEAR_REVIEW.categories
     IN  /\ Len(rows) = Len(cats) + 1
         /\ Len(rows[1]) = Len(years) + 1
         /\ \A j \in 1..Len(years) : DigitsValue(rows[1][j + 1], 0) = years[j]
         /\ \A k \in 1..Len(cats) :
              /\ Len(rows[k + 1]) = Len(years) + 1
              /\ rows[k + 1][1] = cats[k].cat
              /\ \A j \in 1..Len(years) :
                   CellReadsAs(rows[k + 1][j + 1], cats[k].vals[j])

C13_Witness ==
  \E d \in SummaryExports :
     LET rows == ParseCsv(downloads[d].content)
     IN  rows[Len(rows)][Len(rows[Len(rows)])] = <<"P","e","n","d","i","n","g">>

\* ---- C14 -------------------------------------------------------------------
\* C14: filter(L, "", "") returns L unchanged: whenever the state query and
\* the city query are both empty, the filtered list has the same records in
\* the same order as the source list.
C14_EmptyQueriesKeepAll ==
  (stateFilter = <<>> /\ cityFilter = <<>>) => filteredIncidents = incidents

\* both queries emptied again by the handlers, over a list of several records
C14_Witness ==
  /\ stateFilter = <<>> /\ cityFilter = <<>>
  /\ lastOp.op \in {"setStateFilter", "setCityFilter"}
  /\ Len(incidents) >= 2
  /\ incidents[1] # incidents[2]
  /\ filteredIncidents = incidents

\* ---- C15 -------------------------------------------------------------------
\* C15: filtering the built-in incident list with stateFilter = "Texas" and
\* an empty city filter yields exactly the two Texas records, Dallas then
\* Houston, in their original relative order.
C15_TexasScenario ==
  (/\ incidents = MOCK_DATA
   /\ stateFilter = <<"T","e","x","a","s">>
   /\ cityFilter = <<>>)
  => /\ Len(filteredIncidents) = 2
     /\ filteredIncidents[1] = MOCK_DATA[2]
     /\ filteredIncidents[2] = MOCK_DATA[4]
     /\ filteredIncidents[1].city_county = <<"D","a","l","l","a","s">>
     /\ filteredIncidents[2].city_county = <<"H","o","u","s","t","o","n">>
     /\ \A i \in 1..2 : filteredIncidents[i].state = <<"T","e","x","a","s">>
     /\ \A i \in 1..Len(MOCK_DATA) :
          MOCK_DATA[i].state = <<"T","e","x","a","s">> => i \in {2, 4}

C15_Witness ==
  /\ incidents = MOCK_DATA
  /\ stateFilter = <<"T","e","x","a","s">>
  /\ cityFilter = <<>>
  /\ lastOp.op = "setStateFilter"
  /\ Len(filteredIncidents) = 2

\* ---- C16 -------------------------------------------------------------------
\* the calls of findLocalSafetyResources made so far
ResourceCalls == { i \in 1..Len(calls) : calls[i].kind = "resources" }

\* the lookups that got their answer about the position
AnsweredLookups == { k \in 1..Len(lookups) : lookups[k].geo # "pending" }

\* lookup k made the call its case asks for: none while the position is
\* awaited, one without coordinates when geolocation is absent or failed,
\* one with the coordinates of the position otherwise
LookupCallFits(k) ==
  LET l == lookups[k]
  IN  CASE l.geo = "pending" -> l.call = 0
        [] l.geo \in {"absent", "error"} ->
             /\ l.call \in ResourceCalls
             /\ calls[l.call].lat = <<>> /\ calls[l.call].lng = <<>>
        [] l.geo = "position" ->
             /\ l.call \in ResourceCalls
             /\ calls[l.call].lat = <<l.answer[1].latitude>>
             /\ calls[l.call].lng = <<l.answer[1].longitude>>

\* C16: a safety-resource lookup whose geolocation is unavailable or whose
\* position request fails makes exactly one findLocalSafetyResources() call
\* without coordinates; one that obtains a position makes exactly one call
\* with that position's coordinates instead.  Once the call has returned,
\* its result is the intelligence response and isIntelLoading is false
\* again; until then isIntelLoading is true.
C16_LookupFallsBack ==
  /\ \A k \in 1..Len(lookups) : LookupCallFits(k)
  /\ \A i \in ResourceCalls :
       Cardinality({ k \in AnsweredLookups : lookups[k].call = i }) = 1
  /\ \A i \in ResourceCalls : calls[i].pc # "rejected"
  /\ IF lookups = <<>>
       THEN isIntelLoading = FALSE /\ intelResponse = <<>>
       ELSE LET l == lookups[Len(lookups)]
            IN  IF l.call # 0 /\ calls[l.call].pc = "resolved"
                  THEN /\ isIntelLoading = FALSE
                       /\ intelResponse = calls[l.call].result
                  ELSE isIntelLoading = TRUE

\* one lookup fell back after a failed position request, another got a
\* position; both calls returned
C16_Witness ==
  /\ ~isIntelLoading
  /\ intelResponse # <<>>
  /\ \E k \in 1..Len(lookups) :
       /\ lookups[k].geo = "error"
       /\ calls[lookups[k].call].pc = "resolved"
       /\ calls[lookups[k].call].lat = <<>>
  /\ \E k \in 1..Len(lookups) :
       /\ lookups[k].geo = "position"
       /\ calls[lookups[k].call].pc = "resolved"
       /\ calls[lookups[k].call].lat # <<>>

\* ---- C17 -------------------------------------------------------------------
\* what each gateway function yields when run alone with the call's own
\* client outcome and the call's own response
AloneReport(c) ==
  IF Failed(c) THEN
    [text |-> "Error generating report. Please check your API key and connection.",
     sources |-> <<>>]
  ELSE [text |-> TextOr(c.resp[1].text, "No analysis available."),
        sources |-> ChunksOr(c.resp[1].chunks)]

AloneResources(c) ==
  IF Failed(c) THEN [text |-> "Error finding local resources.", sources |-> <<>>]
  ELSE [text |-> TextOr(c.resp[1].text, "No resources found."),
        sources |-> ChunksOr(c.resp[1].chunks)]

AloneChat(c) ==
  IF Failed(c)
    THEN "The AI Expert is currently unavailable. Please check your configuration."
    ELSE TextOr(c.resp[1].text, "No response received from the model.")

CallsOf(kind) == { i \in 1..Len(calls) : calls[i].kind = kind }
ReturnedOf(kind) == { i \in CallsOf(kind) : calls[i].pc = "resolved" }
Latest(S) == CHOOSE i \in S : \A j \in S : j <= i

\* the chat history the chat calls give when nothing else runs: each
\* message, followed by its reply once the call returned
RECURSIVE HistoryOf(_)
HistoryOf(cs) ==
  IF cs = <<>> THEN <<>>
  ELSE LET c == Head(cs)
       IN  (IF c.kind # "chat" THEN <<>>
            ELSE <<[role |-> "user", content |-> c.msg]>>
                   \o (IF c.pc = "resolved"
                         THEN <<[role |-> "assistant",
                                 content |-> Text(AloneChat(c))]>>
                         ELSE <<>>))
           \o HistoryOf(Tail(cs))

\* the state each handler owns is what its own calls alone determine
ResultsAsAlone ==
  /\ reportData = IF ReturnedOf("report") = {} THEN <<>>
                  ELSE <<AloneReport(calls[Latest(ReturnedOf("report"))])>>
  /\ isGeneratingReport = (\E i \in CallsOf("report") : calls[i].pc = "await")
  /\ intelResponse = IF ReturnedOf("resources") = {} THEN <<>>
                     ELSE <<AloneResources(calls[Latest(ReturnedOf("resources"))])>>
  /\ isIntelLoading = \/ \E i \in CallsOf("resources") : calls[i].pc = "await"
                      \/ \E k \in 1..Len(lookups) : lookups[k].geo = "pending"
  /\ chatHistory = HistoryOf(calls)
  /\ isTyping = (\E i \in CallsOf("chat") : calls[i].pc = "await")
  /\ \A i \in CallsOf("chat") : calls[i].session = currentChat

\* the calls of the other kinds are left as they are
OthersUntouched(kind) ==
  /\ CallsOf(kind)' \ CallsOf(kind) \subseteq {Len(calls) + 1}
  /\ \A i \in 1..Len(calls) :
       calls[i].kind # kind => calls'[i] = calls[i]

\* a step of one handler changes only what that handler owns
HandlerFrame ==
  /\ lastOp'.op \in {"handleGenerateReport", "generateEnhancedDataReport.settled"}
       => /\ UNCHANGED <<intelResponse, isIntelLoading, lookups, userInput,
                         chatHistory, isTyping, currentChat, sessions, fvars>>
          /\ OthersUntouched("report")
  /\ lastOp'.op \in {"handleMapsGrounding", "getCurrentPosition.settled",
                     "findLocalSafetyResources.settled"}
       => /\ UNCHANGED <<reportData, isGeneratingReport, userInput,
                         chatHistory, isTyping, currentChat, sessions, fvars>>
          /\ OthersUntouched("resources")
  /\ lastOp'.op \in {"handleSendMessage", "sendChatMessage.settled"}
       => /\ UNCHANGED <<reportData, isGeneratingReport, intelResponse,
                         isIntelLoading, lookups, fvars>>
          /\ OthersUntouched("chat")

\* C17: report generation, safety-resource lookup and chat share no mutable
\* state: a step of handleGenerateReport changes only reportData and
\* isGeneratingReport, a step of handleMapsGrounding only intelResponse and
\* isIntelLoading, a step of handleSendMessage only userInput, chatHistory,
\* isTyping and the chat session (each besides its own requests); and under
\* every interleaving, requests outstanding together included, what each
\* one stores is what its own calls yield when run alone.
C17_HandlersIndependent == []ResultsAsAlone /\ [][HandlerFrame]_vars

\* the three requests are outstanding at the same time
C17_Witness ==
  /\ \E i \in CallsOf("report") : calls[i].pc = "await"
  /\ \E i \in CallsOf("resources") : calls[i].pc = "await"
  /\ \E i \in CallsOf("chat") : calls[i].pc = "await"
  /\ isGeneratingReport /\ isIntelLoading /\ isTyping

\* ---- C18 -------------------------------------------------------------------
\* the report calls that returned
ReportsReturned == { i \in 1..Len(calls) :
                       calls[i].kind = "report" /\ calls[i].pc = "resolved" }

\* C18: two calls of generateReport with the same static context whose
\* client and endpoint behave the same yield the same result; and whatever
\* the endpoint does (text present, text empty or missing, grounding
\* metadata missing, failure) the result has a non-empty text and a sources
\* value that is a sequence, possibly empty.
C18_ReportShape ==
  /\ \A i \in ReportsReturned :
       /\ calls[i].result[1].text # ""
       /\ calls[i].result[1].sources \in Seq({"chunk"})
  /\ \A i, j \in ReportsReturned :
       (calls[i].ai = calls[j].ai /\ calls[i].resp = calls[j].resp)
         => /\ calls[i].req = calls[j].req
            /\ calls[i].result = calls[j].result

\* two calls answered alike, with an empty text: both give the default text
C18_Witness ==
  \E i, j \in ReportsReturned :
     /\ i # j
     /\ calls[i].resp # <<>> /\ calls[i].resp = calls[j].resp
     /\ calls[i].resp[1].ok
     /\ calls[i].resp[1].text = <<"">>
     /\ calls[i].result[1].text = "No analysis available."

\* ---- C19 -------------------------------------------------------------------
\* C19: the chat history is append-only: whenever chatHistory changes, its
\* new value is the previous value with exactly one message appended at the
\* end; no existing entry is changed, reordered or removed.
C19_HistoryAppendOnly ==
  [][chatHistory' # chatHistory =>
       /\ Len(chatHistory') = Len(chatHistory) + 1
       /\ SubSeq(chatHistory', 1, Len(chatHistory)) = chatHistory]_vars

\* two sends completed, one by a reply and one by the failure message
C19_Witness ==
  /\ Len(chatHistory) >= 4
  /\ \E i \in 1..Len(chatHistory) :
       /\ chatHistory[i].role = "assistant"
       /\ chatHistory[i].content = Text(ChatFallback)
  /\ \E i \in 1..Len(chatHistory) :
       /\ chatHistory[i].role = "assistant"
       /\ chatHistory[i].content = Text("Generated text")

\* ---- C20 -------------------------------------------------------------------
\* the chat messages the App sent
ChatCalls == { i \in 1..Len(calls) : calls[i].kind = "chat" }

\* C20: the chat session is created at application start: whenever the App
\* is up (and so before any chat message can be sent) the session is
\* ACTIVE; nothing the user does afterwards re-initializes it; and all chat
\* messages of the run went to that one session.
C20_SessionFromStart ==
  /\ [](/\ appPhase = "mounted" => currentChat # Null
        /\ appPhase # "mounted" => ChatCalls = {}
        /\ \A i \in ChatCalls : calls[i].session = currentChat
        /\ Len(sessions) <= 1)
  /\ [][appPhase = "mounted" =>
          /\ currentChat' = currentChat
          /\ Len(sessions') = Len(sessions)]_vars

\* several messages sent, one of them after a failed request, all in the
\* session made at mount
C20_Witness ==
  /\ appPhase = "mounted"
  /\ currentChat = 1
  /\ \E i, j \in ChatCalls :
       /\ i < j
       /\ Failed(calls[i])
       /\ calls[i].session = 1 /\ calls[j].session = 1
       /\ Len(sessions[1]) >= 2

\* ---- C21 -------------------------------------------------------------------
\* C21: in the built-in 10-year table every category's value sequence has
\* the length of the years sequence, which is 10, so that cell j of a
\* category stands under year j and no cell or year is left over; the
\* rows of an export of the table are as long as its header row.
C21_CategoriesAligned ==
  LET years == GVA_10_YEAR_REVIEW.years
      cats  == GVA_10_YEAR_REVIEW.categories
  IN  /\ Len(years) = 10
      /\ \A k \in 1..Len(cats) :
           /\ Len(cats[k].vals) = Len(years)
           /\ DOMAIN cats[k].vals = DOMAIN years
      /\ \A d \in SummaryExports :
           LET rows == ParseCsv(downloads[d].content)
           IN  \A k \in 1..Len(rows) : Len(rows[k]) = Len(rows[1])

\* the table was exported, and every row read back has one cell per year
C21_Witness ==
  \E d \in SummaryExports :
     LET rows == ParseCsv(downloads[d].content)
     IN  /\ Len(rows) = Len(GVA_10_YEAR_REVIEW.categories) + 1
         /\ \A k \in 1..Len(rows) :
              Len(rows[k]) = Len(GVA_10_YEAR_REVIEW.years) + 1

\* ---- C22 -------------------------------------------------------------------
\* the states the records of a list name
StatesOf(list) == { list[i].state : i \in 1..Len(list) }

\* C22 as stated: the built-in incident list, which the App filters,
\* contains 10 records spread across 6 distinct states.
C22_TenRecordsSixStates ==
  /\ incidents = MOCK_DATA
  /\ Len(incidents) = 10
  /\ Cardinality(StatesOf(incidents)) = 6

\* C22 amended: the built-in incident list, which the App filters, contains
\* 10 records spread across 7 distinct states: Illinois, Texas, California,
\* Florida, Georgia, Ohio and Pennsylvania.
C22_TenRecordsSevenStates ==
  /\ incidents = MOCK_DATA
  /\ Len(incidents) = 10
  /\ Cardinality(StatesOf(incidents)) = 7
  /\ StatesOf(incidents) =
       { <<"I","l","l","i","n","o","i","s">>, <<"T","e","x","a","s">>,
         <<"C","a","l","i","f","o","r","n","i","a">>,
         <<"F","l","o","r","i","d","a">>, <<"G","e","o","r","g","i","a">>,
         <<"O","h","i","o">>,
         <<"P","e","n","n","s","y","l","v","a","n","i","a">> }

\* the filter was run with an empty query and shows all ten records
C22_Witness ==
  /\ appPhase = "mounted"
  /\ lastOp.op = "setStateFilter"
  /\ Len(filteredIncidents) = 10
  /\ Cardinality(StatesOf(filteredIncidents)) = 7

\* the chat requests that completed, answered or failed
ChatCompleted == { i \in ChatCalls : calls[i].resp # <<>> }

\* once no chat request is outstanding the form accepts a non-blank message
FurtherMessageAccepted ==
  \A v \in { w \in InputTexts : Trim(w) # <<>> } : PassesSendGuard(v, isTyping)

\* C23: whenever a chat request issued by handleSendMessage completes,
\* answered or failed, isTyping returns to false and a further message can
\* be sent: every completed request has resolved, the chat is loading only
\* while a request is outstanding, a chat that is not loading accepts a
\* message, and when requests complete a loading chat stops loading.
C23_TypingEnds ==
  /\ [](\A i \in ChatCompleted : calls[i].pc = "resolved")
  /\ [](isTyping => ChatsInFlight # {})
  /\ [](ChatsInFlight = {} /\ appPhase = "mounted" => FurtherMessageAccepted)
  /\ (isTyping ~> ~isTyping)

\* a request failed, the chat stopped loading, and a further message was sent
C23_Witness ==
  /\ \E i, j \in ChatCalls :
       /\ i < j
       /\ calls[i].resp # <<>> /\ ~calls[i].resp[1].ok
       /\ calls[i].pc = "resolved"
       /\ calls[j].pc = "await"
  /\ isTyping
  /\ Len(chatHistory) = 3

\* ---- C24 -------------------------------------------------------------------
\* what sendChatMessage hands back for a request that settled with resp
ReplyTo(resp) ==
  IF ~resp.ok THEN ChatFallback
  ELSE IF resp.text = NoText \/ resp.text[1] = ""
         THEN "No response received from the model."
         ELSE resp.text[1]

\* C24: in every reachable state the chat history alternates user,
\* assistant, user, assistant, ... starting with a user message; its length
\* is odd exactly when a chat request is in flight (isTyping is true); and
\* each assistant entry is the response, or the fallback string, of the
\* request that carried the user message immediately before it.
C24_HistoryAlternates ==
  /\ \A k \in 1..Len(chatHistory) :
       chatHistory[k].role = IF k % 2 = 1 THEN "user" ELSE "assistant"
  /\ (Len(chatHistory) % 2 = 1) <=> isTyping
  /\ isTyping <=> ChatsInFlight # {}
  /\ Len(calls) = (Len(chatHistory) + 1) \div 2
  /\ \A k \in 1..Len(chatHistory) :
       k % 2 = 0 =>
         LET c == calls[k \div 2]
         IN  /\ c.kind = "chat"
             /\ c.msg = chatHistory[k - 1].content
             /\ c.req[1].message = chatHistory[k - 1].content
             /\ c.resp # <<>>
             /\ chatHistory[k].content = Text(ReplyTo(c.resp[1]))

\* a reply, then the failure message, then a third message still waiting
C24_Witness ==
  /\ Len(chatHistory) = 5
  /\ isTyping
  /\ chatHistory[2].content = Text("Generated text")
  /\ chatHistory[4].content = Text(ChatFallback)
  /\ chatHistory[1].content # chatHistory[3].content

\* ---- C25 -------------------------------------------------------------------
\* a submit in this state has nothing to send, or must wait
SubmitTurnedAway == Trim(userInput) = <<>> \/ ChatsInFlight # {}

\* C25: a submit with empty or whitespace-only input, or a submit made while
\* a chat request is pending, is a no-op: it issues no request and leaves
\* userInput, chatHistory, isTyping and the chat session unchanged.
C25_BlankOrPendingSubmitIsNoOp ==
  [][(lastOp'.op = "handleSendMessage" /\ SubmitTurnedAway) =>
       /\ calls' = calls
       /\ UNCHANGED <<userInput, chatHistory, isTyping, currentChat,
                      sessions>>]_vars

\* after one exchange the user typed a blank and submitted it
C25_Witness ==
  /\ lastOp = Op("handleSendMessage", FALSE)
  /\ userInput = <<" ">>
  /\ Len(chatHistory) = 2
  /\ Len(calls) = 1
  /\ ~isTyping

\* ---- C26 -------------------------------------------------------------------
\* the report requests started from the UI that are outstanding
ReportsOutstanding == { i \in CallsOf("report") : calls[i].pc = "await" }

\* the lookups started from the UI that are outstanding: waiting for the
\* position, or for the request made once it was answered
LookupsOutstanding ==
  { k \in 1..Len(lookups) :
      \/ lookups[k].geo = "pending"
      \/ calls[lookups[k].call].pc = "await" }

\* the result of the call of that kind that completed last, if any
LastResult(kind) ==
  IF ReturnedOf(kind) = {} THEN <<>>
  ELSE calls[Latest(ReturnedOf(kind))].result

\* C26: for report generation and for safety-resource lookup, the loading
\* flag is true exactly while a request of that kind started from the UI is
\* outstanding; at most one request of each kind is in flight at any time;
\* and the displayed result is that of the most recently completed request
\* of that kind.
C26_FlagsAndResults ==
  /\ isGeneratingReport <=> ReportsOutstanding # {}
  /\ isIntelLoading <=> LookupsOutstanding # {}
  /\ Cardinality(ReportsOutstanding) <= 1
  /\ Cardinality(LookupsOutstanding) <= 1
  /\ Cardinality({ i \in ResourceCalls : calls[i].pc = "await" }) <= 1
  /\ \A i \in ResourceCalls : \E k \in 1..Len(lookups) : lookups[k].call = i
  /\ reportData = LastResult("report")
  /\ intelResponse = LastResult("resources")

\* two reports completed with different results, the later one is shown,
\* and a lookup is waiting for its request
C26_Witness ==
  /\ \E i, j \in ReturnedOf("report") :
       /\ i < j
       /\ calls[i].result # calls[j].result
       /\ reportData = calls[j].result
  /\ ~isGeneratingReport
  /\ isIntelLoading
  /\ \E k \in 1..Len(lookups) :
       /\ lookups[k].geo = "position"
       /\ calls[lookups[k].call].pc = "await"

\* ---- C27 -------------------------------------------------------------------
\* the records of the incident list that the current filters keep, in the
\* list's order
RECURSIVE KeptFrom(_)
KeptFrom(i) ==
  IF i > Len(incidents) THEN <<>>
  ELSE (IF i \in MatchingPositions THEN <<incidents[i]>> ELSE <<>>)
         \o KeptFrom(i + 1)

\* the file holds a header line, then one line per record, in order
RowsMatch(file, recs) ==
  LET lines == Lines(file.content)
  IN  /\ Len(lines) = Len(recs) + 1
      /\ lines[1] = IncidentsHeaderLine
      /\ \A k \in 1..Len(recs) : lines[k + 1] = IncidentLine(recs[k])

\* C27: the incidents export acts on the currently filtered list: when the
\* filtered list is empty the export produces no file and has no effect;
\* otherwise it produces exactly one file whose data rows correspond
\* one-to-one, in the same order, to the records of the filtered list for
\* the current state and city filters.
C27_ExportActsOnFilteredList ==
  [][lastOp'.op = "downloadFilteredIncidentsCSV" =>
       /\ UNCHANGED <<incidents, stateFilter, cityFilter, filteredIncidents,
                      uvars, hvars, currentChat, sessions, calls>>
       /\ filteredIncidents = KeptFrom(1)
       /\ IF KeptFrom(1) = <<>>
            THEN downloads' = downloads
            ELSE /\ Len(downloads') = Len(downloads) + 1
                 /\ SubSeq(downloads', 1, Len(downloads)) = downloads
                 /\ RowsMatch(downloads'[Len(downloads')], KeptFrom(1))]_vars

\* with both filters set, some records kept and some dropped, the export
\* was clicked and wrote its file
C27_Witness ==
  /\ lastOp.op = "downloadFilteredIncidentsCSV"
  /\ stateFilter # <<>> /\ cityFilter # <<>>
  /\ Len(filteredIncidents) \in 1..(Len(incidents) - 1)
  /\ IncidentsExports # {}
  /\ \A d \in IncidentsExports : downloads[d].records = filteredIncidents
====
